---- MODULE Spec2Model ----
(***************************************************************************)
(* RepoQuest quest runtime (rq-core): the remote origin (pulls and issues), *)
(* the origin cache, the local clone, the filing operations and the state  *)
(* inference of Quest::infer_state.                                        *)
(*                                                                         *)
(* Branch names and labels are sequences of one-character strings, so that *)
(* Stage::branch_name and Quest::parse_stage are a formatting and a parsing *)
(* that can disagree.  Chapter indices are 0-based as in the source; the   *)
(* chapter with index i is stages[i + 1].                                  *)
(***************************************************************************)
EXTENDS Integers, Sequences, FiniteSets, TLC

\* ---------------------------------------------------------------- bounds
MaxStages == 2
MaxItems == 5
MaxInferStages == 2
MaxInferItems == 2
MaxFaultyItems == 1
MaxFragments == 3
MaxFetches == 3
MaxCallItems == 2
MaxPackageStages == 3

\* ------------------------------------------------------ program constants
PerPage == 10
FetchPerPage == 30

VARIABLES stages, variant, origin, branches, main_base, cache, emitted, last,
          faulty, tasks, package

vars == <<stages, variant, origin, branches, main_base, cache, emitted, last,
          faulty, tasks, package>>

\* ------------------------------------------------------------- utilities
None == <<>>
Some(x) == <<x>>

Range(s) == {s[k] : k \in DOMAIN s}

Take(s, n) == IF Len(s) <= n THEN s ELSE SubSeq(s, 1, n)

RECURSIVE Reverse(_)
Reverse(s) == IF s = <<>> THEN <<>> ELSE Append(Reverse(Tail(s)), Head(s))

IsPull(item) == item.kind = "pull"
IsIssue(item) == item.kind = "issue"

RECURSIVE OnlyPulls(_)
OnlyPulls(s) ==
  IF s = <<>> THEN <<>>
  ELSE IF IsPull(Head(s)) THEN <<Head(s)>> \o OnlyPulls(Tail(s))
       ELSE OnlyPulls(Tail(s))

RECURSIVE OnlyIssues(_)
OnlyIssues(s) ==
  IF s = <<>> THEN <<>>
  ELSE IF IsIssue(Head(s)) THEN <<Head(s)>> \o OnlyIssues(Tail(s))
       ELSE OnlyIssues(Tail(s))

\* the least index of a set of positions, 0 when the set is empty
FirstOf(S) == IF S = {} THEN 0 ELSE CHOOSE k \in S : \A j \in S : k <= j

\* ------------------------------------------------------------ stage.rs
Digit == <<"0", "1", "2", "3", "4">>

\* the label of the chapter authored at position i of rqst.toml
LabelAt(i) == <<"s", Digit[i + 1]>>

StagePartChar(part) == IF part = "Starter" THEN "a" ELSE "b"

branch_name(stage, part) == stage.label \o <<"-">> \o <<StagePartChar(part)>>

no_starter(stage) == IF stage.no_starter = None THEN FALSE ELSE stage.no_starter[1]

\* the order of StagePart if Solution were declared before Starter
PartOrd_solution_first(part) == IF part = "Starter" THEN 1 ELSE 0

\* the derived Ord of StagePart: Starter is declared before Solution
PartOrd(part) == IF part = "Starter" THEN 0 ELSE 1

\* StagePart::next_part if no part followed the starter
next_part_none(part) == None

next_part(part) == IF part = "Starter" THEN Some("Solution") ELSE None

\* StagePart::parse if it took the third letter of the branch pattern for a
\* solution
StagePart_parse_third_letter(s) ==
  IF s = "a" THEN Some("Starter")
  ELSE IF s \in {"b", "c"} THEN Some("Solution")
  ELSE None

StagePart_parse(s) ==
  IF s = "a" THEN Some("Starter")
  ELSE IF s = "b" THEN Some("Solution")
  ELSE None

\* ------------------------------------------------------------ quest.rs
NumStages == Len(stages)

stage(idx) == stages[idx + 1]

stage_index == [l \in {stages[k].label : k \in 1..Len(stages)} |->
                  CHOOSE i \in 0..(Len(stages) - 1) : stages[i + 1].label = l]

Ongoing(s, p, st) == [type |-> "Ongoing", stage |-> s, part |-> p, status |-> st]
Completed == [type |-> "Completed"]
GroundState == Ongoing(0, "Starter", "Start")

\* parse_stage if a name that is no chapter's label fell back to the first
\* chapter
parse_stage_unknown_is_first(pr) ==
  LET branch == pr.head
      n == Len(branch)
  IN IF n < 2 \/ branch[n] \notin {"a", "b", "c"} \/ branch[n - 1] # "-"
       THEN None
     ELSE LET name == SubSeq(branch, 1, n - 2)
              part == StagePart_parse(branch[n])
          IN IF part = None THEN None
             ELSE IF name \notin DOMAIN stage_index THEN Some(<<stage(0), part[1]>>)
             ELSE Some(<<stage(stage_index[name]), part[1]>>)

\* regex ^(.*)-([abc])$ on the head ref, then the label table, then the part
parse_stage(pr) ==
  LET branch == pr.head
      n == Len(branch)
  IN IF n < 2 \/ branch[n] \notin {"a", "b", "c"} \/ branch[n - 1] # "-"
       THEN None
     ELSE LET name == SubSeq(branch, 1, n - 2)
              part == StagePart_parse(branch[n])
          IN IF name \notin DOMAIN stage_index THEN None
             ELSE IF part = None THEN None
             ELSE Some(<<stage(stage_index[name]), part[1]>>)

\* ---------------------------------------------------- the remote listings
\* the hosting service lists newest first; pulls also appear among issues
ListPulls(items, n) == Take(Reverse(OnlyPulls(items)), n)
ListIssues(items, n) == Take(Reverse(items), n)

\* collect::<HashMap<_, _>>() over the listing: a later entry of the listing
\* replaces an earlier one with the same first label
issue_map(issues) ==
  LET ok(k) == issues[k].labels # <<>> /\ issues[k].kind # "pull"
      keys == {issues[k].labels[1] : k \in {j \in DOMAIN issues : ok(j)}}
  IN [l \in keys |->
        issues[CHOOSE k \in DOMAIN issues :
                 /\ ok(k) /\ issues[k].labels[1] = l
                 /\ \A j \in DOMAIN issues :
                      (ok(j) /\ issues[j].labels[1] = l) => j <= k]]

\* the tuple of a pull if a merged solution pull were finished whatever its
\* issue
pr_stage_merged_is_finished(pr, parsed, imap) ==
  IF parsed = None THEN None
  ELSE Some(<<parsed[1][1], parsed[1][2], pr.merged>>)

\* the closure of pr_stages: the tuple of one pull, parsed being its
\* parse_stage
pr_stage(pr, parsed, imap) ==
  IF parsed = None THEN None
  ELSE IF ~pr.merged THEN Some(<<parsed[1][1], parsed[1][2], FALSE>>)
  ELSE IF parsed[1][2] = "Starter" THEN Some(<<parsed[1][1], "Starter", TRUE>>)
  ELSE IF parsed[1][1].label \notin DOMAIN imap THEN None
  ELSE Some(<<parsed[1][1], "Solution",
              imap[parsed[1][1].label].state = "closed">>)

pr_stages(prs, imap) ==
  LET tuple(k) == pr_stage(prs[k], parse_stage(prs[k]), imap)
  IN {tuple(k)[1] : k \in {j \in DOMAIN prs : tuple(j) # None}}

\* the issue tuples if an open issue never finished the starter part
issue_stages_starter_unfinished(imap) ==
  LET known == {l \in DOMAIN imap : l \in DOMAIN stage_index}
      tuple(l) ==
        LET st == stage(stage_index[l])
        IN IF imap[l].state = "closed" THEN <<st, "Solution", TRUE>>
           ELSE <<st, "Starter", FALSE>>
  IN {tuple(l) : l \in known}

issue_stages(imap) ==
  LET known == {l \in DOMAIN imap : l \in DOMAIN stage_index}
      tuple(l) ==
        LET st == stage(stage_index[l])
        IN IF imap[l].state = "closed" THEN <<st, "Solution", TRUE>>
           ELSE <<st, "Starter", no_starter(st)>>
  IN {tuple(l) : l \in known}

BoolOrd(b) == IF b THEN 1 ELSE 0

\* the order of the keys if an unfinished tuple were above a finished one
KeyLeq_unfinished_first(a, b) ==
  \/ a[1] < b[1]
  \/ a[1] = b[1] /\ PartOrd(a[2]) < PartOrd(b[2])
  \/ a[1] = b[1] /\ a[2] = b[2] /\ BoolOrd(b[3]) <= BoolOrd(a[3])

\* the derived Ord of (usize, StagePart, bool)
KeyLeq(a, b) ==
  \/ a[1] < b[1]
  \/ a[1] = b[1] /\ PartOrd(a[2]) < PartOrd(b[2])
  \/ a[1] = b[1] /\ a[2] = b[2] /\ BoolOrd(a[3]) <= BoolOrd(b[3])

stage_idx(st) == stage_index[st.label]

Key(t) == <<stage_idx(t[1]), t[2], t[3]>>

Tuples(items) ==
  LET imap == issue_map(ListIssues(items, PerPage))
  IN pr_stages(ListPulls(items, PerPage), imap) \cup issue_stages(imap)

MaxTuple(tuples) == CHOOSE t \in tuples : \A u \in tuples : KeyLeq(Key(u), Key(t))

\* the state if the last chapter were looked for one position too far
state_after_last_off_by_one(t) ==
  IF t[3]
    THEN IF next_part(t[2]) # None
           THEN Ongoing(stage_idx(t[1]), next_part(t[2])[1], "Start")
         ELSE IF stage_idx(t[1]) = NumStages THEN Completed
         ELSE Ongoing(stage_idx(t[1]) + 1, "Starter", "Start")
  ELSE Ongoing(stage_idx(t[1]), t[2], "Ongoing")

\* the state that follows from the greatest tuple (stage, part, finished)
state_after(t) ==
  IF t[3]
    THEN IF next_part(t[2]) # None
           THEN Ongoing(stage_idx(t[1]), next_part(t[2])[1], "Start")
         ELSE IF stage_idx(t[1]) = NumStages - 1 THEN Completed
         ELSE Ongoing(stage_idx(t[1]) + 1, "Starter", "Start")
  ELSE Ongoing(stage_idx(t[1]), t[2], "Ongoing")

\* the ground state when there is no tuple, else what the greatest one gives
state_of_tuples(tuples) ==
  IF tuples = {} THEN GroundState ELSE state_after(MaxTuple(tuples))

\* the state computed from the two pages once both listings answered
StateOf(items) == state_of_tuples(Tuples(items))

\* try_join! of two requests: all answers when both are well, otherwise the
\* failure that completes first, which is either one when both fail
Resp == {"ok", "404", "err"}

try_join(r1, r2) ==
  IF r1 = "ok" /\ r2 = "ok" THEN {"ok"}
  ELSE {r \in {r1, r2} : r # "ok"}

JoinOutcomes == UNION {try_join(r1, r2) : r1 \in Resp, r2 \in Resp}

\* what the hosting service and git may answer in this run: when faulty, a
\* remote call or a git command may fail; otherwise each one succeeds unless
\* the state of the clone or of the template makes it fail
Sent == IF faulty THEN BOOLEAN ELSE {TRUE}
Answers == IF faulty THEN Resp ELSE {"ok"}
Joins == IF faulty THEN JoinOutcomes ELSE {"ok"}

Ok(v) == [ok |-> TRUE, val |-> v]
Err == [ok |-> FALSE]

\* infer_state if a 404 were returned as any other failure
infer_state_404_is_error(items, joined) ==
  IF joined \in {"404", "err"} THEN Err
  ELSE Ok(StateOf(items))

\* Quest::infer_state, given what the join of the two listings reported
infer_state(items, joined) ==
  IF joined = "404" THEN Ok(GroundState)
  ELSE IF joined = "err" THEN Err
  ELSE Ok(StateOf(items))

\* ------------------------------------------------- the template source
\* The template holds one issue per chapter, labelled with the chapter's
\* label, a starter pull per chapter that has a starter and a solution pull
\* per chapter, each labelled with the chapter's label.
\* Texts are sequences of one-character strings. An item has a base and a
\* body as well: the base of a pull is the branch it asks to be merged in.
NewIssue(num, labels) ==
  [number |-> num, kind |-> "issue", head |-> <<>>, labels |-> labels,
   state |-> "open", merged |-> FALSE, base |-> <<>>, body |-> <<>>]

NewPull(num, head, labels) ==
  [number |-> num, kind |-> "pull", head |-> head, labels |-> labels,
   state |-> "open", merged |-> FALSE, base |-> <<>>, body |-> <<>>]

Main == <<"m", "a", "i", "n">>

\* the pulls of the template are stacked: a starter pull asks to be merged
\* in the solution branch of the chapter before, a solution pull in the
\* starter branch of its chapter
StarterBase(n) ==
  IF n > 1 THEN branch_name(stages[n - 1], "Solution") ELSE Main

SolutionBase(n) ==
  IF no_starter(stages[n]) THEN StarterBase(n)
  ELSE branch_name(stages[n], "Starter")

\* the body the author gave a pull: a word and the branch of the pull
PullBody(head) == <<"P", "R", " ">> \o head

\* the placeholder {{ <label> <kind> }} of an issue body
Placeholder(label, kind) ==
  <<"{", "{", " ">> \o label \o <<" ">> \o kind \o <<" ", "}", "}">>

KindPr == <<"p", "r">>
KindIssue == <<"i", "s", "s", "u", "e">>

\* the body the author gave the issue of chapter n: it refers to the pull
\* of the chapter and to the issue of the chapter before
IssueBody(n) ==
  Placeholder(stages[n].label, KindPr)
    \o (IF n > 1 THEN <<" ">> \o Placeholder(stages[n - 1].label, KindIssue)
        ELSE <<>>)

TemplatePull(num, head, base, label) ==
  [NewPull(num, head, <<label>>) EXCEPT !.base = base, !.body = PullBody(head)]

TemplateIssue(num, n) ==
  [NewIssue(num, <<stages[n].label>>) EXCEPT !.body = IssueBody(n)]

RECURSIVE TemplateItemsUpTo(_)
TemplateItemsUpTo(n) ==
  IF n = 0 THEN <<>>
  ELSE LET prev == TemplateItemsUpTo(n - 1)
           st == stages[n]
           k == Len(prev)
       IN IF no_starter(st)
            THEN prev \o <<TemplateIssue(k + 1, n),
                           TemplatePull(k + 2, branch_name(st, "Solution"),
                                        SolutionBase(n), st.label)>>
          ELSE prev \o <<TemplatePull(k + 1, branch_name(st, "Starter"),
                                      StarterBase(n), st.label),
                         TemplateIssue(k + 2, n),
                         TemplatePull(k + 3, branch_name(st, "Solution"),
                                      SolutionBase(n), st.label)>>

TemplateItems == TemplateItemsUpTo(Len(stages))

Branch(name) == [sel |-> "Branch", name |-> name]
Label(name) == [sel |-> "Label", name |-> name]

\* the element of s at position k, nothing at position 0
At(s, k) == IF k = 0 THEN None ELSE Some(s[k])

find_pr(selector, prs) ==
  At(prs, FirstOf({k \in DOMAIN prs :
                     IF selector.sel = "Branch" THEN prs[k].head = selector.name
                     ELSE selector.name \in Range(prs[k].labels)}))

find_issue(label_name, issues) ==
  At(issues, FirstOf({k \in DOMAIN issues : label_name \in Range(issues[k].labels)}))

\* QuestTemplate::pull_request and QuestTemplate::issue, alike in both variants
template_pull_request(selector) ==
  find_pr(selector, ListPulls(TemplateItems, FetchPerPage))

template_issue(label) ==
  find_issue(label, OnlyIssues(ListIssues(TemplateItems, FetchPerPage)))

\* the patches if each were taken against main
RECURSIVE PatchesUpTo_against_main(_)
PatchesUpTo_against_main(n) ==
  IF n = 0 THEN <<>>
  ELSE IF no_starter(stages[n]) THEN PatchesUpTo_against_main(n - 1)
  ELSE Append(PatchesUpTo_against_main(n - 1),
              [base |-> Main, head |-> branch_name(stages[n], "Starter")])

\* QuestPackage::build: one patch per chapter with a starter
RECURSIVE PatchesUpTo(_)
PatchesUpTo(n) ==
  IF n = 0 THEN <<>>
  ELSE LET st == stages[n]
           base == IF n > 1 THEN branch_name(stages[n - 1], "Solution")
                   ELSE Main
       IN IF no_starter(st) THEN PatchesUpTo(n - 1)
          ELSE Append(PatchesUpTo(n - 1),
                      [base |-> base, head |-> branch_name(st, "Starter")])

patches == PatchesUpTo(Len(stages))

patch(key) ==
  LET S == {k \in DOMAIN patches : <<patches[k].base, patches[k].head>> = key}
  IN IF S = {} THEN None ELSE Some(CHOOSE k \in S : \A j \in S : j <= k)

\* the local clone has the remote `upstream` exactly in the repo variant
has_upstream == variant = "repo"

can_skip == variant = "repo"

\* ------------------------------------------------------------- worlds
\* What an operation has done so far: its result and the state it leaves.
World(res, o, b, m, c, e) ==
  [res |-> res, origin |-> o, branches |-> b, main_base |-> m,
   cache |-> c, emitted |-> e, conflict |-> None, merge_type |-> None,
   faults |-> {}, asked |-> None, emits |-> 0]

Here == World("ok", origin, branches, main_base, cache, emitted)

Failed(w) == [w EXCEPT !.res = "err"]

\* a remote call or a git command of the operation failed
Fault(w, call) == [w EXCEPT !.faults = @ \cup {call}]

Panicked(w) == [w EXCEPT !.res = "panic"]

\* ------------------------------------------------------------ github.rs
\* fetch if the issue listing were cached as it was answered
fetch_retains_nothing(items, c, joined, comments) ==
  IF joined = "404" THEN [res |-> "false", cache |-> c]
  ELSE IF joined = "err" THEN [res |-> "err", cache |-> c]
  ELSE LET prs == ListPulls(items, FetchPerPage)
           issues == ListIssues(items, FetchPerPage)
       IN IF prs # <<>> /\ comments = "err" THEN [res |-> "err", cache |-> c]
          ELSE [res |-> "true",
                cache |-> [prs |-> Some(prs), issues |-> Some(issues)]]

\* GithubRepo::fetch: Ok(true), Ok(false) or an error; the cache it leaves
\* fetch if the caches were written before the comments were listed
fetch_writes_before_comments(items, c, joined, comments) ==
  IF joined = "404" THEN [res |-> "false", cache |-> c]
  ELSE IF joined = "err" THEN [res |-> "err", cache |-> c]
  ELSE LET prs == ListPulls(items, FetchPerPage)
           issues == OnlyIssues(ListIssues(items, FetchPerPage))
           written == [prs |-> Some(prs), issues |-> Some(issues)]
       IN IF prs # <<>> /\ comments = "err"
            THEN [res |-> "err", cache |-> written]
          ELSE [res |-> "true", cache |-> written]

fetch(items, c, joined, comments) ==
  IF joined = "404" THEN [res |-> "false", cache |-> c]
  ELSE IF joined = "err" THEN [res |-> "err", cache |-> c]
  ELSE LET prs == ListPulls(items, FetchPerPage)
           issues == OnlyIssues(ListIssues(items, FetchPerPage))
       IN IF prs # <<>> /\ comments = "err" THEN [res |-> "err", cache |-> c]
          ELSE [res |-> "true",
                cache |-> [prs |-> Some(prs), issues |-> Some(issues)]]

\* the cache of GithubRepo::new: nothing fetched yet
NewCache == [prs |-> None, issues |-> None]

\* load if a repository that is not found were accepted
github_load_accepts_not_found(f) ==
  IF f.res = "err" THEN [res |-> "err", cache |-> f.cache]
  ELSE [res |-> "ok", cache |-> f.cache]

\* GithubRepo::load, f being what the fetch of the new repository answered
github_load(f) ==
  IF f.res = "true" THEN [res |-> "ok", cache |-> f.cache]
  ELSE [res |-> "err", cache |-> f.cache]

\* GithubRepo::pr and GithubRepo::issue over a populated cache
cache_pr(c, selector) == find_pr(selector, c.prs[1])

cache_issue(c, label_name) == find_issue(label_name, c.issues[1])

Url(item) == IF item = None THEN None ELSE Some(item[1].number)

\* ------------------------------------ github.rs, the issue-body pass
\* The regex \{\{ (\S+) (\S+) \}\} over a text. A group \S+ is followed by
\* a space, so it is the whole run of characters up to the next space.
OpenBraces == <<"{", "{", " ">>
CloseBraces == <<" ", "}", "}">>

\* the position after the run without a space that starts at position i
RunEnd(s, i) ==
  CHOOSE j \in i..(Len(s) + 1) :
    /\ j = Len(s) + 1 \/ s[j] = " "
    /\ \A k \in i..(j - 1) : s[k] # " "

\* the match that starts at position i, if there is one: its range in
\* offsets from 0, the end excluded, and its two groups
capture_kind(s, i, a, b, d) ==
  IF d = b + 1 \/ d + 2 > Len(s) THEN None
  ELSE IF SubSeq(s, d, d + 2) # CloseBraces THEN None
  ELSE Some([range |-> [start |-> i - 1, end |-> d + 2],
             label |-> SubSeq(s, a, b - 1),
             kind |-> SubSeq(s, b + 1, d - 1)])

capture_label(s, i, a, b) ==
  IF b = a \/ b > Len(s) THEN None
  ELSE capture_kind(s, i, a, b, RunEnd(s, b + 1))

capture_at(s, i) ==
  IF i + 2 > Len(s) THEN None
  ELSE IF SubSeq(s, i, i + 2) # OpenBraces THEN None
  ELSE capture_label(s, i, i + 3, RunEnd(s, i + 3))

\* Regex::captures_iter: the leftmost match from a position on, then the
\* matches after its end
RECURSIVE captures_iter(_, _)
RECURSIVE captures_from(_, _, _)
captures_from(s, at, cap) ==
  IF cap = None THEN captures_iter(s, at + 1)
  ELSE <<cap[1]>> \o captures_iter(s, cap[1].range.end + 1)

captures_iter(s, at) ==
  IF at > Len(s) THEN <<>> ELSE captures_from(s, at, capture_at(s, at))

\* format!("#{number}")
DecimalDigit == <<"0", "1", "2", "3", "4", "5", "6", "7", "8", "9">>

RECURSIVE Decimal(_)
Decimal(n) ==
  IF n < 10 THEN <<DecimalDigit[n + 1]>>
  ELSE Append(Decimal(n \div 10), DecimalDigit[(n % 10) + 1])

\* the entity a match refers to: the first pull, or the first issue, of the
\* cache that has the label
entity_number(c, cap) ==
  IF cap.kind = KindPr THEN Url(cache_pr(c, Label(cap.label)))
  ELSE Url(cache_issue(c, cap.label))

\* the replacement if it were the number alone
substitution_bare_number(cap, number) ==
  IF number = None THEN <<>>
  ELSE <<[range |-> cap.range, content |-> Decimal(number[1])]>>

substitution(cap, number) ==
  IF number = None THEN <<>>
  ELSE <<[range |-> cap.range, content |-> <<"#">> \o Decimal(number[1])]>>

\* the filter_map of process_issue_body
RECURSIVE substitutions(_, _)
substitutions(c, caps) ==
  IF caps = <<>> THEN <<>>
  ELSE substitution(Head(caps), entity_number(c, Head(caps)))
         \o substitutions(c, Tail(caps))

\* String::replace_range
replace_range(s, range, content) ==
  SubSeq(s, 1, range.start) \o content \o SubSeq(s, range.end + 1, Len(s))

\* the debug assertion of replace_many_ranges
ranges_in_order(ranges) ==
  \A k \in 1..(Len(ranges) - 1) : ranges[k].range.end <= ranges[k + 1].range.start

\* replace_many_ranges if the first range were replaced first
RECURSIVE replace_many_ranges_first_to_last(_, _)
replace_many_ranges_first_to_last(s, ranges) ==
  IF ranges = <<>> THEN s
  ELSE replace_many_ranges_first_to_last(
         replace_range(s, ranges[1].range, ranges[1].content), Tail(ranges))

\* utils::replace_many_ranges: the last range is replaced first
RECURSIVE replace_many_ranges(_, _)
replace_many_ranges(s, ranges) ==
  IF ranges = <<>> THEN s
  ELSE replace_many_ranges(
         replace_range(s, ranges[Len(ranges)].range, ranges[Len(ranges)].content),
         SubSeq(ranges, 1, Len(ranges) - 1))

\* a match whose second group is neither pr nor issue is unimplemented!()
unimplemented(caps) ==
  \E k \in DOMAIN caps : caps[k].kind \notin {KindPr, KindIssue}

\* GithubRepo::process_issue_body
processed(c, body, caps) ==
  IF unimplemented(caps) THEN [res |-> "panic"]
  ELSE [res |-> "ok", body |-> replace_many_ranges(body, substitutions(c, caps))]

process_issue_body(c, body) == processed(c, body, captures_iter(body, 1))

stage_states(c) ==
  [k \in 1..Len(stages) |->
     [issue_url |-> Url(cache_issue(c, stages[k].label)),
      feature_pr_url |-> Url(cache_pr(c, Branch(branch_name(stages[k], "Starter")))),
      solution_pr_url |-> Url(cache_pr(c, Branch(branch_name(stages[k], "Solution")))),
      reference_solution_pr_url |->
        IF variant = "repo"
          THEN Url(template_pull_request(Branch(branch_name(stages[k], "Solution"))))
        ELSE None]]

\* infer_state_update if it emitted the descriptor it had when infer_state
\* fails
state_event_emits_on_failure(w, f, s) ==
  IF f.res = "err" THEN Failed(w)
  ELSE IF ~s.ok THEN Failed([w EXCEPT !.cache = f.cache, !.emits = @ + 1])
  ELSE IF f.cache.prs = None \/ f.cache.issues = None
    THEN Panicked([w EXCEPT !.cache = f.cache])
  ELSE [w EXCEPT !.cache = f.cache,
                 !.emits = @ + 1,
                 !.emitted = Some([state |-> s.val,
                                   stages |-> stage_states(f.cache),
                                   can_skip |-> can_skip])]

\* what infer_state_update leaves, f being what fetch answered and s what
\* infer_state answered
state_event(w, f, s) ==
  IF f.res = "err" THEN Failed(w)
  ELSE IF ~s.ok THEN Failed([w EXCEPT !.cache = f.cache])
  ELSE IF f.cache.prs = None \/ f.cache.issues = None
    THEN Panicked([w EXCEPT !.cache = f.cache])
  ELSE [w EXCEPT !.cache = f.cache,
                 !.emits = @ + 1,
                 !.emitted = Some([state |-> s.val,
                                   stages |-> stage_states(f.cache),
                                   can_skip |-> can_skip])]

\* the listings of infer_state_update that failed: fj is what the join of
\* fetch reported, fc what the comment listings answered, ij what the join
\* of infer_state reported; infer_state is reached unless fetch returned an
\* error
listed(w, fj, fc, ij) ==
  IF fj = "err" THEN Fault(w, "fetch")
  ELSE IF fj = "ok" /\ fc = "err" /\ OnlyPulls(w.origin) # <<>>
    THEN Fault(w, "list comments")
  ELSE LET w1 == IF fj = "404" THEN Fault(w, "fetch 404") ELSE w
       IN IF ij = "404" THEN Fault(w1, "infer_state 404")
          ELSE IF ij = "err" THEN Fault(w1, "infer_state")
          ELSE w1

\* Quest::infer_state_update: fetch, state_descriptor, emit
infer_state_update(w) ==
  {state_event(listed(w, fj, fc, ij), fetch(w.origin, w.cache, fj, fc),
               infer_state(w.origin, ij))
   : fj \in Joins, fc \in Answers \ {"404"}, ij \in Joins}

\* --------------------------------------------------------------- git.rs
Upstream == {branch_name(stages[k], "Solution") : k \in 1..Len(stages)}
              \cup {branch_name(stages[k], "Starter") :
                      k \in {j \in 1..Len(stages) : ~no_starter(stages[j])}}
              \cup {Main}

\* GitRepo::cherry_pick: a conflict is overridden with the reference solution
cherry_pick(base_branch, target_branch, conflict) ==
  IF ~has_upstream \/ {base_branch, target_branch} \ Upstream # {} THEN Err
  ELSE Ok(IF conflict THEN "SolutionReset" ELSE "Success")

\* The chain of a package holds the starter patches only, each taken
\* against the reference solution of the chapter before. On the tree of the
\* initial tag the first patch of a package whose first chapter has a
\* starter applies; whether a later patch applies without the reference
\* solutions before it depends on what these changed.
AppliesOnInitial(chain) == Len(chain) = 1 /\ chain[1].base = Main

\* GitRepo::apply_patch if a conflict were not told from a clean apply
git_apply_patch_conflict_is_success(chain, conflict, replays) ==
  IF ~conflict \/ replays \/ AppliesOnInitial(chain) THEN Ok("Success")
  ELSE Err

\* GitRepo::apply_patch: the last patch is applied; a conflict resets to the
\* initial tag and replays the chain, and a patch of the replay that does
\* not apply is an error
git_apply_patch(chain, conflict, replays) ==
  IF ~conflict THEN Ok("Success")
  ELSE IF replays \/ AppliesOnInitial(chain) THEN Ok("StarterReset")
  ELSE Err

\* apply_patch if a package had a patch for every pair of branches
template_apply_patch_for_any_pair(base_branch, target_branch, conflict, replays) ==
  IF variant = "repo" THEN cherry_pick(base_branch, target_branch, conflict)
  ELSE git_apply_patch(patches, conflict, replays)

\* QuestTemplate::apply_patch of the two variants
template_apply_patch(base_branch, target_branch, conflict, replays) ==
  IF variant = "repo" THEN cherry_pick(base_branch, target_branch, conflict)
  ELSE LET patch_index == patch(<<base_branch, target_branch>>)
       IN IF patch_index = None THEN Err
          ELSE git_apply_patch(SubSeq(patches, 1, patch_index[1]), conflict,
                               replays)

\* GitRepo::create_branch_from: the result and the local branches it leaves;
\* pushed tells the push that follows the patch to succeed
branch_made(b1, merge_type, pushed) ==
  IF ~merge_type.ok THEN [ok |-> FALSE, branches |-> b1]
  ELSE IF ~pushed THEN [ok |-> FALSE, branches |-> b1]
  ELSE [ok |-> TRUE, branches |-> b1, val |-> merge_type.val]

\* create_branch_from if the checkout of a branch that exists succeeded
create_branch_from_existing(b, base_branch, target_branch, conflict, replays, pushed) ==
  branch_made(b \cup {target_branch},
              template_apply_patch(base_branch, target_branch, conflict,
                                   replays),
              pushed)

create_branch_from(b, base_branch, target_branch, conflict, replays, pushed) ==
  IF target_branch \in b THEN [ok |-> FALSE, branches |-> b]
  ELSE branch_made(b \cup {target_branch},
                   template_apply_patch(base_branch, target_branch, conflict,
                                        replays),
                   pushed)

\* GitRepo::reset if the ref resolved without an upstream remote
git_reset_any_remote(w, ref, target, pushed) ==
  IF ref \notin Upstream THEN Failed(w)
  ELSE IF ~pushed THEN Failed([w EXCEPT !.main_base = target])
  ELSE [w EXCEPT !.main_base = target]

\* GitRepo::reset: hard reset of main to a ref, then a forced push
git_reset(w, ref, target, pushed) ==
  IF ~has_upstream \/ ref \notin Upstream THEN Failed(Fault(w, "git reset"))
  ELSE IF ~pushed THEN Failed(Fault([w EXCEPT !.main_base = target], "git push"))
  ELSE [w EXCEPT !.main_base = target]

\* ---------------------------------------------------- github.rs, filing
RESET_LABEL == <<"r", "e", "s", "e", "t">>

\* GithubRepo::copy_pr: the pull is created, then labelled, then commented;
\* upto names the last remote call that succeeds
CopyPrSteps == {"none", "create", "labels", "all"}
CopyPrUpto == IF faulty THEN CopyPrSteps ELSE {"all"}

\* the two notes of copy_pr, each taken as one unit of text
SolutionResetNote ==
  <<"Note: due to a merge conflict, this PR is a hard reset to the reference solution, and may have overwritten your previous changes.">>

StarterResetNote ==
  <<"Note: due to a merge conflict, this PR is a hard reset to the starter code, and may have overwritten your previous changes.">>

\* the pull that copy_pr creates: the head of the template's pull, the base
\* main whatever the base of the template's pull
CreatedPull(num, pr, body, labels) ==
  [NewPull(num, pr.head, labels) EXCEPT !.base = Main, !.body = body]

\* copy_pr if it copied the base of the template's pull
copy_pr_copies_base(w, pr, merge_type, upto) ==
  LET is_reset == merge_type \in {"SolutionReset", "StarterReset"}
      num == Len(w.origin) + 1
      body == IF merge_type = "SolutionReset" THEN pr.body \o SolutionResetNote
              ELSE IF merge_type = "StarterReset" THEN pr.body \o StarterResetNote
              ELSE pr.body
      labels == IF is_reset THEN Append(pr.labels, RESET_LABEL) ELSE pr.labels
      made == [CreatedPull(num, pr, body, labels) EXCEPT !.base = pr.base]
  IN IF upto = "all" THEN [w EXCEPT !.origin = Append(@, made)] ELSE Failed(w)

copy_pr(w, pr, merge_type, upto) ==
  LET is_reset == merge_type \in {"SolutionReset", "StarterReset"}
      num == Len(w.origin) + 1
      body == IF merge_type = "SolutionReset" THEN pr.body \o SolutionResetNote
              ELSE IF merge_type = "StarterReset" THEN pr.body \o StarterResetNote
              ELSE pr.body
      labels == IF is_reset THEN Append(pr.labels, RESET_LABEL) ELSE pr.labels
      created == [w EXCEPT !.origin = Append(@, CreatedPull(num, pr, body, <<>>))]
      labelled == [w EXCEPT !.origin = Append(@, CreatedPull(num, pr, body, labels))]
  IN IF upto = "none" THEN Failed(Fault(w, "create pull"))
     ELSE IF upto = "create" THEN Failed(Fault(created, "add labels"))
     ELSE IF upto = "labels" THEN Failed(Fault(labelled, "create comment"))
     ELSE labelled

\* GithubRepo::copy_issue
issue_created(w, issue, body_processed, sent) ==
  IF body_processed.res = "panic" THEN Panicked(w)
  ELSE IF ~sent THEN Failed(Fault(w, "create issue"))
  ELSE [w EXCEPT !.origin =
          Append(@, [NewIssue(Len(w.origin) + 1, issue.labels)
                       EXCEPT !.body = body_processed.body])]

copy_issue(w, issue, sent) ==
  issue_created(w, issue, process_issue_body(w.cache, issue.body), sent)

\* GithubRepo::close_issue and the issue update of skip_to_stage
\* close_issue if the answer of the update were dropped
close_issue_answer_dropped(w, number, sent) ==
  IF ~sent THEN Fault(w, "update issue")
  ELSE [w EXCEPT !.origin[number].state = "closed"]

close_issue(w, number, sent) ==
  IF ~sent THEN Failed(Fault(w, "update issue"))
  ELSE [w EXCEPT !.origin[number].state = "closed"]

\* GithubRepo::merge_pr
merge_pr(w, number, sent) ==
  IF ~sent THEN Failed(w)
  ELSE [w EXCEPT !.origin[number].state = "closed", !.origin[number].merged = TRUE]

\* ------------------------------------------------------- quest.rs, filing
\* the ? operator: a world that failed is returned as it is, a successful one
\* goes on with the rest of the function
Try(w, rest) == IF w.res = "ok" THEN rest ELSE {w}

\* the rest of file_pr once the branch was made or not, pr being the pull of
\* the template
pr_filed(w, made, pr) ==
  IF ~made.ok
    THEN {Failed(Fault([w EXCEPT !.branches = made.branches], "create branch"))}
  ELSE IF pr = None THEN {Failed([w EXCEPT !.branches = made.branches])}
  ELSE {copy_pr([w EXCEPT !.branches = made.branches,
                           !.merge_type = Some(made.val)],
                 pr[1], made.val, upto) :
          upto \in CopyPrUpto}

\* Quest::file_pr; conflict tells whether the learner's main conflicts with
\* the change that is asked for, replays whether the chain of a package
\* applies on the initial tree
file_pr(w, base_branch, target_branch) ==
  {Failed(Fault([w EXCEPT !.asked = Some(<<base_branch, target_branch>>)],
                "git pull")) : pulled \in Sent \ {TRUE}}
  \cup UNION {
    pr_filed([w EXCEPT !.conflict = Some(conflict),
                       !.asked = Some(<<base_branch, target_branch>>)],
             create_branch_from(w.branches, base_branch, target_branch,
                                conflict, replays, pushed),
             template_pull_request(Branch(target_branch)))
    : conflict \in BOOLEAN, replays \in BOOLEAN, pushed \in Sent}

\* Quest::file_issue
file_issue(w, idx) ==
  IF idx >= NumStages THEN {Panicked(w)}
  ELSE LET issue == template_issue(stage(idx).label)
       IN IF issue = None THEN {Failed(w)}
          ELSE UNION {Try(w1, infer_state_update(w1)) :
                        w1 \in {copy_issue(w, issue[1], sent) : sent \in Sent}}

\* file_feature_and_issue if it filed the solution branch of the chapter
file_feature_and_issue_solution_branch(w, idx) ==
  IF idx >= NumStages THEN {Panicked(w)}
  ELSE LET st == stage(idx)
           base_branch == IF idx > 0 THEN branch_name(stage(idx - 1), "Solution")
                          ELSE Main
           filed == IF ~no_starter(st)
                      THEN file_pr(w, base_branch, branch_name(st, "Solution"))
                    ELSE {w}
           updated == UNION {Try(w1, infer_state_update(w1)) : w1 \in filed}
       IN UNION {Try(w2, file_issue(w2, idx)) : w2 \in updated}

\* file_feature_and_issue if it filed the issue without a refresh after the
\* pull
file_feature_and_issue_without_refresh(w, idx) ==
  IF idx >= NumStages THEN {Panicked(w)}
  ELSE LET st == stage(idx)
           base_branch == IF idx > 0 THEN branch_name(stage(idx - 1), "Solution")
                          ELSE Main
           filed == IF ~no_starter(st)
                      THEN file_pr(w, base_branch, branch_name(st, "Starter"))
                    ELSE {w}
       IN UNION {Try(w2, file_issue(w2, idx)) : w2 \in filed}

\* Quest::file_feature_and_issue
file_feature_and_issue(w, idx) ==
  IF idx >= NumStages THEN {Panicked(w)}
  ELSE LET st == stage(idx)
           base_branch == IF idx > 0 THEN branch_name(stage(idx - 1), "Solution")
                          ELSE Main
           filed == IF ~no_starter(st)
                      THEN file_pr(w, base_branch, branch_name(st, "Starter"))
                    ELSE {w}
           updated == UNION {Try(w1, infer_state_update(w1)) : w1 \in filed}
       IN UNION {Try(w2, file_issue(w2, idx)) : w2 \in updated}

\* file_solution if the base were the starter branch of every chapter
file_solution_from_starter(w, idx) ==
  IF idx >= NumStages THEN {Panicked(w)}
  ELSE LET st == stage(idx)
       IN UNION {Try(w1, infer_state_update(w1)) :
                   w1 \in file_pr(w, branch_name(st, "Starter"),
                                  branch_name(st, "Solution"))}

\* Quest::file_solution
file_solution(w, idx) ==
  IF idx >= NumStages THEN {Panicked(w)}
  ELSE LET st == stage(idx)
           base == IF no_starter(st)
                     THEN IF idx > 0 THEN branch_name(stage(idx - 1), "Solution")
                          ELSE Main
                   ELSE branch_name(st, "Starter")
       IN UNION {Try(w1, infer_state_update(w1)) :
                   w1 \in file_pr(w, base, branch_name(st, "Solution"))}

\* Quest::skip_to_stage
skip_to_stage(w, idx) ==
  IF idx = 0 \/ idx - 1 >= NumStages THEN {Panicked(w)}
  ELSE LET prev_stage == stage(idx - 1)
           ref == branch_name(prev_stage, "Solution")
           number == Len(w.origin) + 1
           reset == {git_reset(w, ref, idx - 1, pushed) : pushed \in Sent}
           filed == UNION {Try(w1, file_issue(w1, idx - 1)) : w1 \in reset}
           closed == UNION {Try(w2, {close_issue(w2, number, sent) : sent \in Sent}) :
                              w2 \in filed}
       IN UNION {Try(w3, infer_state_update(w3)) : w3 \in closed}

\* ------------------------------------------------------------ the model
NoStarterValues == {None, Some(TRUE)}

Configs(n) == UNION {[1..k -> NoStarterValues] : k \in 1..n}

StagesOf(cfg) ==
  [k \in DOMAIN cfg |-> [label |-> LabelAt(k - 1), no_starter |-> cfg[k]]]

Acted(op, arg, res, out) ==
  [op |-> op, arg |-> arg, res |-> res, before |-> StateOf(origin), out |-> out]

Descriptor(state, c) ==
  [state |-> state, stages |-> stage_states(c), can_skip |-> can_skip]

\* no task of the runtime is looked at: the operations run one at a time
NoTasks == <<>>

\* no package was built, saved or loaded
NoPackage == [built |-> None, file |-> None, loaded |-> None]

\* the state Quest::create leaves: a fresh origin, which load_core has
\* fetched, and the first descriptor emitted
Init ==
  /\ stages \in {StagesOf(cfg) : cfg \in Configs(MaxStages)}
  /\ variant \in {"repo", "package"}
  /\ origin = <<>>
  /\ branches = {}
  /\ main_base = "initial"
  /\ cache = [prs |-> Some(<<>>), issues |-> Some(<<>>)]
  /\ emitted = Some(Descriptor(GroundState, cache))
  /\ faulty = FALSE
  /\ tasks = NoTasks
  /\ package = NoPackage
  /\ last = [op |-> "create", arg |-> 0, res |-> "ok", before |-> GroundState,
             out |-> None]

\* an operation leaves the state of one of its worlds; an aborted task
\* leaves what it had done
Leave(w, op, arg) ==
  /\ origin' = w.origin
  /\ branches' = w.branches
  /\ main_base' = w.main_base
  /\ cache' = w.cache
  /\ emitted' = w.emitted
  /\ last' = Acted(op, arg, w.res,
                   [conflict |-> w.conflict, merge_type |-> w.merge_type,
                    faults |-> w.faults, asked |-> w.asked,
                    emits |-> w.emits])
  /\ UNCHANGED <<stages, variant, faulty, tasks, package>>

FileIssue(idx) ==
  /\ Len(origin) + 1 <= MaxItems
  /\ \E w \in file_issue(Here, idx) : Leave(w, "file_issue", idx)

FileFeatureAndIssue(idx) ==
  /\ Len(origin) + 2 <= MaxItems
  /\ \E w \in file_feature_and_issue(Here, idx) :
       Leave(w, "file_feature_and_issue", idx)

FileSolution(idx) ==
  /\ Len(origin) + 1 <= MaxItems
  /\ \E w \in file_solution(Here, idx) : Leave(w, "file_solution", idx)

SkipToStage(idx) ==
  /\ Len(origin) + 1 <= MaxItems
  /\ \E w \in skip_to_stage(Here, idx) : Leave(w, "skip_to_stage", idx)

RefreshState ==
  \E w \in infer_state_update(Here) : Leave(w, "refresh_state", 0)

\* Quest::infer_state called on its own, as state_descriptor and the tests do
InferState ==
  \E r1 \in Answers, r2 \in Answers :
    \E joined \in try_join(r1, r2) :
      LET s == infer_state(origin, joined)
      IN /\ last' = Acted("infer_state", <<r1, r2, joined>>,
                          IF s.ok THEN "ok" ELSE "err",
                          IF s.ok THEN Some(s.val) ELSE None)
         /\ UNCHANGED <<stages, variant, origin, branches, main_base, cache,
                        emitted, faulty, tasks, package>>

\* the learner merges a pull or closes an issue on the hosting service
MergePr(number) ==
  /\ IsPull(origin[number]) /\ origin[number].state = "open"
  /\ Leave(merge_pr(Here, number, TRUE), "merge_pr", number)

CloseIssue(number) ==
  /\ IsIssue(origin[number]) /\ origin[number].state = "open"
  /\ Leave(close_issue(Here, number, TRUE), "close_issue", number)

\* ---------------------------------------------------------- the caller
\* The interface shows the last emitted descriptor and offers, for the
\* current chapter only, the filing that its part awaits, and a skip to any
\* later chapter.
UiState == emitted[1].state

cur_stage == IF UiState.type = "Completed" THEN NumStages ELSE UiState.stage

Stages == 0..(NumStages - 1)

ClickFileIssue(idx) ==
  /\ UiState = Ongoing(idx, "Starter", "Start")
  /\ no_starter(stage(idx))
  /\ FileIssue(idx)

ClickAdvanceStarter(idx) ==
  /\ UiState = Ongoing(idx, "Starter", "Start")
  /\ FileFeatureAndIssue(idx)

ClickAdvanceSolution(idx) ==
  /\ UiState = Ongoing(idx, "Solution", "Start")
  /\ FileSolution(idx)

ClickSkip(idx) ==
  /\ idx > cur_stage
  /\ SkipToStage(idx)

Next ==
  \/ \E idx \in Stages : ClickFileIssue(idx)
  \/ \E idx \in Stages : ClickAdvanceStarter(idx)
  \/ \E idx \in Stages : ClickAdvanceSolution(idx)
  \/ \E idx \in Stages : ClickSkip(idx)
  \/ RefreshState
  \/ \E number \in DOMAIN origin : MergePr(number)
  \/ \E number \in DOMAIN origin : CloseIssue(number)

Spec == Init /\ [][Next]_vars

\* the state infer_state answers when both listings succeed
Inferred == StateOf(origin)

\* ------------------------------------------- state inference on its own
\* Any pulls and issues may be on an origin: pulls of chapter parts, open or
\* merged, and of other branches; issues labelled with a chapter, open or
\* closed, with nothing or with another label first.
ItemKinds ==
  {NewPull(0, branch_name(stages[k], part), <<stages[k].label>>) :
     k \in 1..Len(stages), part \in {"Starter", "Solution"}}
  \cup {NewIssue(0, <<stages[k].label>>) : k \in 1..Len(stages)}

OtherKinds ==
  {NewPull(0, LabelAt(0) \o <<"-", "c">>, <<LabelAt(0)>>),
   NewPull(0, <<"z", "-", "a">>, <<>>),
   NewPull(0, LabelAt(0), <<>>),
   NewIssue(0, <<>>),
   NewIssue(0, <<<<"b", "u", "g">>, LabelAt(0)>>)}

ItemStates ==
  ItemKinds \cup OtherKinds
  \cup {[it EXCEPT !.state = "closed", !.merged = IsPull(it)] : it \in ItemKinds}

\* a loaded quest over an origin that is still empty; in a faulty run the
\* listings may fail
InitInfer ==
  /\ stages \in {StagesOf(cfg) : cfg \in Configs(MaxInferStages)}
  /\ variant = "repo"
  /\ origin = <<>>
  /\ branches = {}
  /\ main_base = "initial"
  /\ cache = [prs |-> Some(<<>>), issues |-> Some(<<>>)]
  /\ emitted = Some(Descriptor(GroundState, cache))
  /\ faulty \in BOOLEAN
  /\ tasks = NoTasks
  /\ package = NoPackage
  /\ last = [op |-> "load", arg |-> 0, res |-> "ok", before |-> GroundState,
             out |-> None]

\* somebody opens, merges or closes something on the hosting service
Appear(it) ==
  /\ Len(origin) < (IF faulty THEN MaxFaultyItems ELSE MaxInferItems)
  /\ origin' = Append(origin, [it EXCEPT !.number = Len(origin) + 1])
  /\ last' = Acted("appear", Len(origin) + 1, "ok", None)
  /\ UNCHANGED <<stages, variant, branches, main_base, cache, emitted, faulty,
                 tasks, package>>

\* the origin is filled, then the inference is applied to it once
NextInfer ==
  /\ last.op # "infer_state"
  /\ \/ \E it \in ItemStates : Appear(it)
     \/ InferState

SpecInfer == InitInfer /\ [][NextInfer]_vars

\* ------------------------------------------------------------- claims
\* C1: whenever the origin has no pull whose head is <label>-a or <label>-b
\* of a chapter and no issue whose first label is a chapter's label (an empty
\* origin included), an answered state inference returns Ongoing{0, Starter,
\* Start}.
C1_GroundWithoutTuples ==
  LET heads == {branch_name(stages[k], part) :
                  k \in 1..Len(stages), part \in {"Starter", "Solution"}}
      labels == {stages[k].label : k \in 1..Len(stages)}
      no_pull == \A k \in DOMAIN origin :
                   IsPull(origin[k]) => origin[k].head \notin heads
      no_issue == \A k \in DOMAIN origin :
                    IsIssue(origin[k]) =>
                      (origin[k].labels = <<>> \/ origin[k].labels[1] \notin labels)
  IN (last.op = "infer_state" /\ last.res = "ok" /\ no_pull /\ no_issue)
       => last.out = Some(GroundState)

\* C1 happens: an origin holding a pull and an issue, none of a chapter, was
\* listed and inferred as the ground state.
C1_Witness ==
  /\ last.op = "infer_state" /\ last.arg[3] = "ok"
  /\ \E k \in DOMAIN origin : IsPull(origin[k])
  /\ \E k \in DOMAIN origin : IsIssue(origin[k]) /\ origin[k].labels # <<>>
  /\ last.out = Some(GroundState)
  /\ Tuples(origin) = {}

\* C2: an inferred Ongoing state names a chapter index below len(stages), and
\* Completed is inferred only when the greatest tuple is (last chapter,
\* Solution, finished), which takes a closed issue of the last chapter.
C2_StateInRange ==
  (last.op = "infer_state" /\ last.res = "ok") =>
    LET out == last.out[1]
        final == <<NumStages - 1, "Solution", TRUE>>
    IN /\ out.type \in {"Ongoing", "Completed"}
       /\ out.type = "Ongoing" => out.stage \in 0..(NumStages - 1)
       /\ out.type = "Completed" =>
            /\ last.arg[3] = "ok"
            /\ final \in {Key(t) : t \in Tuples(origin)}
            /\ \A t \in Tuples(origin) : KeyLeq(Key(t), final)
            /\ \E k \in DOMAIN origin :
                 /\ IsIssue(origin[k]) /\ origin[k].state = "closed"
                 /\ origin[k].labels # <<>>
                 /\ origin[k].labels[1] = stages[NumStages].label

\* C2 happens: an inference answered Completed.
C2_Witness ==
  /\ last.op = "infer_state" /\ last.res = "ok"
  /\ last.out = Some(Completed)
  /\ NumStages > 1

\* C3 as claimed: a 404 of either listing makes infer_state return the ground
\* state, and a listing failure without any 404 is returned as an error.
C3_Original ==
  last.op = "infer_state" =>
    LET r1 == last.arg[1]
        r2 == last.arg[2]
    IN /\ "404" \in {r1, r2} => (last.res = "ok" /\ last.out = Some(GroundState))
       /\ ("err" \in {r1, r2} /\ "404" \notin {r1, r2}) => last.res = "err"

\* C3 amended: the failure that the join of the two listings reports decides:
\* a reported 404 gives Ok(ground state), any other reported failure is
\* returned as an error; a 404 of one listing gives the ground state for sure
\* only when the other listing did not fail otherwise.
C3_ReportedFailureDecides ==
  last.op = "infer_state" =>
    LET r1 == last.arg[1]
        r2 == last.arg[2]
        joined == last.arg[3]
    IN /\ joined = "404" => (last.res = "ok" /\ last.out = Some(GroundState))
       /\ joined = "err" => (last.res = "err" /\ last.out = None)
       /\ ("404" \in {r1, r2} /\ "err" \notin {r1, r2}) =>
            (last.res = "ok" /\ last.out = Some(GroundState))
       /\ ("err" \in {r1, r2} /\ "404" \notin {r1, r2}) => last.res = "err"

\* C3 happens: one listing answered 404 over an origin whose pulls and issues
\* would infer another state, and the ground state was returned.
C3_Witness ==
  /\ last.op = "infer_state"
  /\ last.arg = <<"404", "ok", "404">>
  /\ StateOf(origin) # GroundState
  /\ last.out = Some(GroundState)

\* C4: for a chapter i with no_starter, once its issue is filed and while an
\* issue of the chapter is open, with nothing on the origin for a later
\* chapter and no solution pull of chapter i, the inferred state is
\* Ongoing{i, Solution, Start}; so it is right after file_issue(i) from
\* Ongoing{i, Starter, Start}.
C4_IssueCompletesMissingStarter ==
  \A i \in Stages :
    LET st == stage(i)
        later == {stages[j].label : j \in (i + 2)..Len(stages)}
        chapter_issue(k) == /\ IsIssue(origin[k]) /\ origin[k].labels # <<>>
                            /\ origin[k].labels[1] = st.label
        beyond(k) ==
          \/ IsIssue(origin[k]) /\ origin[k].labels # <<>>
               /\ origin[k].labels[1] \in later
          \/ IsPull(origin[k])
               /\ origin[k].head \in {l \o <<"-", c>> : l \in later, c \in {"a", "b"}}
          \/ IsPull(origin[k]) /\ origin[k].head = branch_name(st, "Solution")
    IN no_starter(st) =>
         /\ ( /\ \E k \in DOMAIN origin : chapter_issue(k) /\ origin[k].state = "open"
              /\ \A k \in DOMAIN origin : ~beyond(k) )
              => Inferred = Ongoing(i, "Solution", "Start")
         /\ ( /\ last.op \in {"file_issue", "file_feature_and_issue"}
              /\ last.arg = i /\ last.res = "ok"
              /\ last.before = Ongoing(i, "Starter", "Start") )
              => Inferred = Ongoing(i, "Solution", "Start")

\* C4 happens: file_issue has just filed the issue of a chapter without
\* starter, after an earlier chapter was worked through.
C4_Witness ==
  /\ last.op = "file_issue" /\ last.res = "ok" /\ last.arg = 1
  /\ NumStages > 1
  /\ no_starter(stage(1))
  /\ last.before = Ongoing(1, "Starter", "Start")
  /\ origin[Len(origin)].state = "open"
  /\ Inferred = Ongoing(1, "Solution", "Start")

\* C5: for a chapter i with a starter, a successful file_feature_and_issue(i)
\* started in Ongoing{i, Starter, Start} leaves the inferred state at
\* Ongoing{i, Starter, Ongoing}, and a refresh, merge or closing made in that
\* state that leaves the starter pull unmerged and the chapter's issue open
\* keeps it.
C5_StarterFiledIsOngoing ==
  \A i \in Stages :
    LET waiting == Ongoing(i, "Starter", "Ongoing")
        head == branch_name(stage(i), "Starter")
        pull_open == \E k \in DOMAIN origin :
                       IsPull(origin[k]) /\ origin[k].head = head /\ ~origin[k].merged
        issue_open == \E k \in DOMAIN origin :
                        /\ IsIssue(origin[k]) /\ origin[k].labels # <<>>
                        /\ origin[k].labels[1] = stage(i).label
                        /\ origin[k].state = "open"
    IN ~no_starter(stage(i)) =>
         /\ ( /\ last.op = "file_feature_and_issue" /\ last.arg = i
              /\ last.res = "ok"
              /\ last.before = Ongoing(i, "Starter", "Start") )
              => (Inferred = waiting /\ pull_open /\ issue_open)
         /\ ( /\ last.op \in {"refresh_state", "merge_pr", "close_issue"}
              /\ last.before = waiting
              /\ pull_open /\ issue_open )
              => Inferred = waiting

\* C5 happens: after the filing of chapter 1's starter and issue, another
\* pull was merged and the state still waits for the starter.
C5_Witness ==
  /\ NumStages > 1
  /\ ~no_starter(stage(1))
  /\ last.op = "merge_pr"
  /\ last.before = Ongoing(1, "Starter", "Ongoing")
  /\ Inferred = Ongoing(1, "Starter", "Ongoing")
  /\ \E k \in DOMAIN origin :
       IsPull(origin[k]) /\ origin[k].head = branch_name(stage(1), "Starter")
         /\ ~origin[k].merged

\* C6: merging the starter pull of a chapter i with a starter, in the state
\* Ongoing{i, Starter, Ongoing}, moves the inferred state to
\* Ongoing{i, Solution, Start}.
C6_MergedStarterStartsSolution ==
  \A i \in Stages :
    ( /\ last.op = "merge_pr" /\ last.res = "ok"
      /\ origin[last.arg].head = branch_name(stage(i), "Starter")
      /\ last.before = Ongoing(i, "Starter", "Ongoing") )
      => Inferred = Ongoing(i, "Solution", "Start")

\* C6 happens: the starter pull of chapter 1 was merged while its issue is
\* open.
C6_Witness ==
  /\ last.op = "merge_pr" /\ last.res = "ok"
  /\ NumStages > 1
  /\ origin[last.arg].head = branch_name(stage(1), "Starter")
  /\ last.before = Ongoing(1, "Starter", "Ongoing")
  /\ \E k \in DOMAIN origin :
       IsIssue(origin[k]) /\ origin[k].labels = <<stage(1).label>>
         /\ origin[k].state = "open"
  /\ Inferred = Ongoing(1, "Solution", "Start")

\* C7: a successful file_solution(i) started in Ongoing{i, Solution, Start}
\* yields Ongoing{i, Solution, Ongoing}, and merging the solution pull while
\* an issue of chapter i is open and none is closed leaves it there.
C7_SolutionNeedsClosedIssue ==
  \A i \in Stages :
    LET waiting == Ongoing(i, "Solution", "Ongoing")
        chapter_issue(k) == /\ IsIssue(origin[k]) /\ origin[k].labels # <<>>
                            /\ origin[k].labels[1] = stage(i).label
    IN /\ ( /\ last.op = "file_solution" /\ last.arg = i /\ last.res = "ok"
            /\ last.before = Ongoing(i, "Solution", "Start") )
            => Inferred = waiting
       /\ ( /\ last.op = "merge_pr" /\ last.res = "ok"
            /\ origin[last.arg].head = branch_name(stage(i), "Solution")
            /\ last.before = waiting
            /\ \E k \in DOMAIN origin : chapter_issue(k) /\ origin[k].state = "open"
            /\ \A k \in DOMAIN origin : chapter_issue(k) => origin[k].state = "open" )
            => Inferred = waiting

\* C7 happens: the solution pull filed for chapter 1 was merged while the
\* chapter's issue is open.
C7_Witness ==
  /\ last.op = "merge_pr" /\ last.res = "ok"
  /\ NumStages > 1
  /\ origin[last.arg].head = branch_name(stage(1), "Solution")
  /\ origin[last.arg].merged
  /\ last.before = Ongoing(1, "Solution", "Ongoing")
  /\ Inferred = Ongoing(1, "Solution", "Ongoing")

\* C8: closing an issue of chapter i when nothing on the origin belongs to a
\* later chapter advances the inferred state to Ongoing{i+1, Starter, Start},
\* or to Completed when i is the last chapter, with or without a solution
\* pull of chapter i.
C8_ClosedIssueAdvances ==
  \A i \in Stages :
    LET later == {stages[j].label : j \in (i + 2)..Len(stages)}
        beyond(k) ==
          \/ IsIssue(origin[k]) /\ origin[k].labels # <<>>
               /\ origin[k].labels[1] \in later
          \/ IsPull(origin[k])
               /\ origin[k].head \in {l \o <<"-", c>> : l \in later, c \in {"a", "b"}}
    IN ( /\ last.op = "close_issue" /\ last.res = "ok"
         /\ origin[last.arg].labels # <<>>
         /\ origin[last.arg].labels[1] = stage(i).label
         /\ \A k \in DOMAIN origin : ~beyond(k) )
         => Inferred = IF i = NumStages - 1 THEN Completed
                       ELSE Ongoing(i + 1, "Starter", "Start")

\* C8 happens: the issue of chapter 0 was closed after its starter was merged
\* and no solution pull was ever filed, and the state moved to chapter 1.
C8_Witness ==
  /\ last.op = "close_issue" /\ last.res = "ok"
  /\ NumStages > 1
  /\ origin[last.arg].labels = <<stage(0).label>>
  /\ last.before = Ongoing(0, "Solution", "Start")
  /\ \E k \in DOMAIN origin :
       origin[k].head = branch_name(stage(0), "Starter") /\ origin[k].merged
  /\ \A k \in DOMAIN origin : origin[k].head # branch_name(stage(0), "Solution")
  /\ Inferred = Ongoing(1, "Starter", "Start")

\* C9 as claimed: a successful skip_to_stage(i), 1 <= i < len(stages), from a
\* state whose chapter is below i leaves the inferred state at
\* Ongoing{i, Starter, Start}.
C9_SkipReachesStarter ==
  ( /\ last.op = "skip_to_stage" /\ last.res = "ok"
    /\ last.arg \in 1..(NumStages - 1)
    /\ last.before.type = "Ongoing" /\ last.before.stage < last.arg )
    => Inferred = Ongoing(last.arg, "Starter", "Start")

\* C10: a skip_to_stage on a quest that cannot skip fails and changes neither
\* what main was reset to nor any pull or issue of the origin.
C10_NoSkipWithoutCanSkip ==
  [][(last'.op = "skip_to_stage" /\ ~can_skip) =>
       (last'.res = "err" /\ main_base' = main_base /\ origin' = origin)]_vars

\* C10 happens: skip_to_stage was called on a package quest that has filed
\* something already.
C10_Witness ==
  /\ last.op = "skip_to_stage"
  /\ ~can_skip
  /\ last.res = "err"
  /\ origin # <<>>
  /\ main_base = "initial"

\* ------------------------------------------------ conflicts and copies
\* the pull that the last operation filed: the newest pull of the origin
FiledPull ==
  origin[CHOOSE k \in DOMAIN origin :
           /\ IsPull(origin[k])
           /\ \A j \in DOMAIN origin : IsPull(origin[j]) => j <= k]

\* the pull of the template that FiledPull was copied from
FiledFrom == template_pull_request(Branch(FiledPull.head))[1]

\* file_feature_and_issue was called for a chapter with a starter while the
\* learner's main conflicted with the starter change
StarterConflict ==
  /\ last.op = "file_feature_and_issue"
  /\ ~no_starter(stage(last.arg))
  /\ last.out.conflict = Some(TRUE)

\* C11 as stated: when the learner's main conflicts with the starter patch
\* of chapter i, file_feature_and_issue(i) returns success, the filed pull
\* has the reset label and a body with the conflict notice, and the merge
\* type is StarterReset, under both template variants.
C11_Original ==
  StarterConflict =>
    /\ last.res = "ok"
    /\ last.out.merge_type = Some("StarterReset")
    /\ RESET_LABEL \in Range(FiledPull.labels)
    /\ FiledPull.body \in {FiledFrom.body \o StarterResetNote,
                           FiledFrom.body \o SolutionResetNote}

\* C11: when the learner's main conflicts with the starter change of
\* chapter i, then under the repository template file_feature_and_issue(i)
\* returns success with merge type SolutionReset, and under the package
\* template it returns success with merge type StarterReset whenever the
\* branch was made, which it is for chapter 0; in both the filed pull has
\* the reset label and its body ends with the notice of its merge type.
C11_ConflictFilesResetPull ==
  StarterConflict =>
    IF variant = "repo"
      THEN /\ last.res = "ok"
           /\ last.out.merge_type = Some("SolutionReset")
           /\ RESET_LABEL \in Range(FiledPull.labels)
           /\ FiledPull.body = FiledFrom.body \o SolutionResetNote
    ELSE (last.out.merge_type # None \/ last.arg = 0) =>
           /\ last.res = "ok"
           /\ last.out.merge_type = Some("StarterReset")
           /\ RESET_LABEL \in Range(FiledPull.labels)
           /\ FiledPull.body = FiledFrom.body \o StarterResetNote

\* a conflict on the starter of chapter 1 of a package was filed as a reset
C11_Witness ==
  /\ StarterConflict
  /\ variant = "package"
  /\ last.arg = 1
  /\ last.res = "ok"
  /\ last.out.merge_type = Some("StarterReset")
  /\ RESET_LABEL \in Range(FiledPull.labels)

\* C12: the pull that copy_pr files has the base main and the head of the
\* template's pull; with merge type StarterReset or SolutionReset its body
\* is the template's body followed by the notice and its labels are the
\* template's labels followed by the reset label, and with merge type
\* Success its body and labels are the template's.
C12_CopyPrShape ==
  (last.op \in {"file_feature_and_issue", "file_solution"}
     /\ last.res = "ok" /\ last.out.merge_type # None) =>
    LET merge_type == last.out.merge_type[1]
    IN /\ FiledPull.base = Main
       /\ FiledPull.head = FiledFrom.head
       /\ merge_type = "Success" =>
            (FiledPull.body = FiledFrom.body /\ FiledPull.labels = FiledFrom.labels)
       /\ merge_type = "StarterReset" =>
            /\ FiledPull.body = FiledFrom.body \o StarterResetNote
            /\ FiledPull.labels = Append(FiledFrom.labels, RESET_LABEL)
       /\ merge_type = "SolutionReset" =>
            /\ FiledPull.body = FiledFrom.body \o SolutionResetNote
            /\ FiledPull.labels = Append(FiledFrom.labels, RESET_LABEL)

\* a solution pull was copied after a conflict from a template pull whose
\* base is a starter branch
C12_Witness ==
  /\ last.op = "file_solution"
  /\ last.res = "ok"
  /\ last.out.merge_type = Some("SolutionReset")
  /\ FiledFrom.base # Main
  /\ FiledPull.base = Main

\* C17 as stated: file_feature_and_issue, file_solution and file_issue
\* succeed under the package template exactly when they succeed under the
\* repository template. Called as the interface calls them, they always
\* succeed under the repository template, so each has to succeed whatever
\* the variant.
C17_Original ==
  last.op \in {"file_feature_and_issue", "file_solution", "file_issue"} =>
    last.res = "ok"

\* C17: called as the interface calls them, the three operations succeed
\* under the repository template; under the package template file_issue
\* succeeds, file_feature_and_issue succeeds unless the starter branch could
\* not be made, and file_solution fails; a successful file_issue or
\* file_feature_and_issue leaves the same inferred state under both.
C17_VariantsAgreeButForSolution ==
  last.op \in {"file_feature_and_issue", "file_solution", "file_issue"} =>
    /\ variant = "repo" => last.res = "ok"
    /\ variant = "package" =>
         (last.res = "ok" <=>
            /\ last.op # "file_solution"
            /\ (last.op = "file_feature_and_issue" /\ ~no_starter(stage(last.arg)))
                 => last.out.merge_type # None)
    /\ (last.op # "file_solution" /\ last.res = "ok") =>
         Inferred = IF no_starter(stage(last.arg))
                      THEN Ongoing(last.arg, "Solution", "Start")
                    ELSE Ongoing(last.arg, "Starter", "Ongoing")

\* under the package template the starter of chapter 1 was filed, and
\* file_solution then failed after making its branch
C17_Witness ==
  /\ variant = "package"
  /\ last.op = "file_solution"
  /\ last.arg = 1
  /\ last.res = "err"
  /\ branch_name(stage(1), "Starter") \in branches
  /\ branch_name(stage(1), "Solution") \in branches

\* the issue that the last operation filed: the newest item of the origin
FiledIssue == origin[Len(origin)]

\* C15: after file_feature_and_issue(i) succeeded for a chapter with a
\* starter, the starter pull is on the origin with the chapter's label, it
\* was filed before the issue, and the placeholder {{ <label_i> pr }} at the
\* head of the issue's body reads # and the number of that pull and no
\* placeholder with the chapter's label is left: the pull was in the cache
\* when the body was processed.
C15_IssueRefersToFiledPull ==
  (last.op = "file_feature_and_issue" /\ last.res = "ok"
     /\ ~no_starter(stage(last.arg))) =>
    /\ IsIssue(FiledIssue)
    /\ FiledPull.head = branch_name(stage(last.arg), "Starter")
    /\ stage(last.arg).label \in Range(FiledPull.labels)
    /\ FiledPull.number < FiledIssue.number
    /\ SubSeq(FiledIssue.body, 1, 1 + Len(Decimal(FiledPull.number)))
         = <<"#">> \o Decimal(FiledPull.number)
    /\ \A cap \in Range(captures_iter(FiledIssue.body, 1)) :
         cap.label # stage(last.arg).label

\* the issue of chapter 1 was filed with the number of its starter pull
C15_Witness ==
  /\ last.op = "file_feature_and_issue"
  /\ last.res = "ok"
  /\ last.arg = 1
  /\ ~no_starter(stage(1))
  /\ IssueBody(2) = Placeholder(LabelAt(1), KindPr) \o <<" ">>
                      \o Placeholder(LabelAt(0), KindIssue)
  /\ FiledIssue.body[1] = "#"
  /\ FiledIssue.body[2] = DecimalDigit[FiledPull.number + 1]

\* ------------------------------------------ the issue-body pass alone
\* process_issue_body over the bodies that an author can write with a few
\* fragments, and over caches with and without the entities referred to.
RECURSIVE Flatten(_)
Flatten(frags) ==
  IF frags = <<>> THEN <<>> ELSE Head(frags) \o Flatten(Tail(frags))

Missing == <<"m">>
OtherKind == <<"x">>

Fragments ==
  {Placeholder(LabelAt(0), KindPr),
   Placeholder(LabelAt(0), KindIssue),
   Placeholder(Missing, KindPr),
   Placeholder(LabelAt(0), OtherKind),
   OpenBraces,
   CloseBraces,
   <<"a">>,
   <<" ">>}

CachedPull(num, label) == NewPull(num, label \o <<"-", "a">>, <<label>>)

BodyCaches ==
  {[prs |-> Some(p), issues |-> Some(i)] :
     p \in {<<>>, <<CachedPull(17, LabelAt(0))>>,
            <<CachedPull(3, LabelAt(0)), CachedPull(17, LabelAt(0))>>},
     i \in {<<>>, <<NewIssue(12, <<LabelAt(0)>>)>>}}

\* the body and the cache of the documented example
Label00 == <<"0", "0", "-", "s", "t", "a", "g", "e">>
Label01 == <<"0", "1", "-", "s", "t", "a", "g", "e">>

ExampleBody ==
  <<"S", "e", "e", " ">> \o Placeholder(Label01, KindPr)
    \o <<" ", "a", "n", "d", " ">> \o Placeholder(Label00, KindIssue)

ExampleCache ==
  [prs |-> Some(<<CachedPull(17, Label01)>>),
   issues |-> Some(<<NewIssue(12, <<Label00>>)>>)]

Written(frags) ==
  [op |-> "body", arg |-> frags, res |-> "ok", before |-> GroundState,
   out |-> None]

InitBody ==
  /\ stages = StagesOf(<<None>>)
  /\ variant = "repo"
  /\ origin = <<>>
  /\ branches = {}
  /\ main_base = "initial"
  /\ \/ cache \in BodyCaches /\ last = Written(<<>>)
     \/ cache = ExampleCache /\ last = Written(<<ExampleBody>>)
  /\ emitted = None
  /\ faulty = FALSE
  /\ tasks = NoTasks
  /\ package = NoPackage

\* the author writes one more fragment of the body
WriteBody(f) ==
  /\ last.op = "body"
  /\ Len(last.arg) < MaxFragments
  /\ last' = Written(Append(last.arg, f))
  /\ UNCHANGED <<stages, variant, origin, branches, main_base, cache, emitted,
                 faulty, tasks, package>>

\* the body the pass was given
Body == Flatten(last.arg)

ProcessIssueBody ==
  /\ last.op = "body"
  /\ last' = [op |-> "process_issue_body", arg |-> last.arg,
              res |-> process_issue_body(cache, Body).res,
              before |-> GroundState,
              out |-> process_issue_body(cache, Body)]
  /\ UNCHANGED <<stages, variant, origin, branches, main_base, cache, emitted,
                 faulty, tasks, package>>

NextBody ==
  \/ \E f \in Fragments : WriteBody(f)
  \/ ProcessIssueBody

SpecBody == InitBody /\ [][NextBody]_vars

\* the matches of the body and the replacements the pass made
Captures == captures_iter(Body, 1)
Substitutions == substitutions(cache, Captures)

\* the entities of the cache that have a label, by kind
Entities(kind, label) ==
  IF kind = KindPr
    THEN {k \in DOMAIN cache.prs[1] : label \in Range(cache.prs[1][k].labels)}
  ELSE {k \in DOMAIN cache.issues[1] : label \in Range(cache.issues[1][k].labels)}

EntityNumber(kind, k) ==
  IF kind = KindPr THEN cache.prs[1][k].number ELSE cache.issues[1][k].number

\* a placeholder by itself: # and the number of the first entity with its
\* label if there is one, its own text if there is none
Resolved(cap) ==
  IF Entities(cap.kind, cap.label) = {}
    THEN SubSeq(Body, cap.range.start + 1, cap.range.end)
  ELSE <<"#">> \o Decimal(EntityNumber(cap.kind, FirstOf(Entities(cap.kind, cap.label))))

\* the body read from left to right from position from on, every
\* placeholder resolved by itself and everything else copied
RECURSIVE ResolvedFrom(_, _)
ResolvedFrom(caps, from) ==
  IF caps = <<>> THEN SubSeq(Body, from, Len(Body))
  ELSE SubSeq(Body, from, Head(caps).range.start)
         \o Resolved(Head(caps))
         \o ResolvedFrom(Tail(caps), Head(caps).range.end + 1)

\* C13: when the pass returns, every placeholder {{ <label> <kind> }} with
\* kind pr or issue whose entity is found by its label in the cache of this
\* repository is replaced with # and the number of that entity, and every
\* placeholder whose entity is not found is left as it is.
C13_PlaceholdersResolved ==
  (last.op = "process_issue_body" /\ last.res = "ok") =>
    last.out.body = ResolvedFrom(Captures, 1)

\* the documented example: pull 17 and issue 12 give "See #17 and #12"
C13_Witness ==
  /\ last.op = "process_issue_body"
  /\ last.arg = <<ExampleBody>>
  /\ last.out.body = <<"S", "e", "e", " ", "#", "1", "7", " ", "a", "n", "d",
                       " ", "#", "1", "2">>

\* the body read from left to right from position from on, the text of
\* every replaced range exchanged for its replacement and everything else
\* copied
RECURSIVE Spliced(_, _)
Spliced(subs, from) ==
  IF subs = <<>> THEN SubSeq(Body, from, Len(Body))
  ELSE SubSeq(Body, from, Head(subs).range.start)
         \o Head(subs).content
         \o Spliced(Tail(subs), Head(subs).range.end + 1)

\* C14 as stated: for every issue body, also one with {{ x y }} of another
\* kind, the pass gives an output in which everything but the replaced
\* placeholders is the text of the body, the replaced ranges do not overlap,
\* and replacing from right to left is replacing each placeholder by itself.
C14_Original ==
  last.op = "process_issue_body" =>
    /\ last.res = "ok"
    /\ ranges_in_order(Substitutions)
    /\ last.out.body = Spliced(Substitutions, 1)

\* C14: for every issue body without a match {{ x y }} of a kind other than
\* pr and issue, the replaced ranges are in order and do not overlap, and
\* the output is the body with each replaced range exchanged by itself for
\* its replacement, all other text kept as it is; a body with a match of
\* another kind makes the pass panic and gives no output.
C14_TextPreserved ==
  last.op = "process_issue_body" =>
    IF unimplemented(Captures) THEN last.res = "panic"
    ELSE /\ last.res = "ok"
         /\ ranges_in_order(Substitutions)
         /\ last.out.body = Spliced(Substitutions, 1)

\* two placeholders were replaced around one that was left
C14_Witness ==
  /\ last.op = "process_issue_body"
  /\ last.res = "ok"
  /\ Len(Captures) = 3
  /\ Len(Substitutions) = 2
  /\ Substitutions[1].range.end < Substitutions[2].range.start

\* ------------------------------------------------ the tasks of the runtime
\* The poll task and the commands of the interface run as tasks of a
\* multi-threaded runtime over one shared Quest. Here an operation is the
\* sequence of its steps: the remote calls it awaits, the git operations it
\* runs, the guards on the caches it takes and drops, the two assignments
\* with which fetch publishes what it listed. What the steps carry is left
\* out but for the fetch that a cache came from.
Await(call) == [kind |-> "await", on |-> call]
List == [kind |-> "list", on |-> "listings"]
Publish(c) == [kind |-> "publish", on |-> c]
Guard(c) == [kind |-> "guard", on |-> c]
Drop(c) == [kind |-> "drop", on |-> c]
Git(operation) == [kind |-> "git", on |-> operation]
Emit == [kind |-> "emit", on |-> "state_event"]

\* a guarded view of a cache that is read and released in one expression
guarded_read_kept(c) == <<Guard(c)>>

guarded_read(c) == <<Guard(c), Drop(c)>>

\* GithubRepo::fetch
fetch_steps ==
  <<List, Await("list_comments"), Publish("prs"), Publish("issues")>>

\* Quest::stage_states, for each chapter
RECURSIVE stage_states_steps(_)
stage_states_steps(n) ==
  IF n = 0 THEN <<>>
  ELSE stage_states_steps(n - 1)
         \o guarded_read("issues") \o guarded_read("prs") \o guarded_read("prs")
         \o (IF variant = "repo" THEN guarded_read("template_prs") ELSE <<>>)

\* Quest::state_descriptor
state_descriptor_steps == <<Await("infer_state")>> \o stage_states_steps(NumStages)

\* Quest::infer_state_update
infer_state_update_steps == fetch_steps \o state_descriptor_steps \o <<Emit>>

\* Quest::infer_state_loop, one turn
infer_state_loop_steps == infer_state_update_steps \o <<Await("sleep")>>

\* Quest::file_pr
file_pr_steps ==
  <<Git("checkout_main_and_pull"), Git("create_branch_from")>>
    \o (IF variant = "repo" THEN guarded_read("template_prs") ELSE <<>>)
    \o <<Await("create_pull"), Await("add_labels")>>

\* Quest::file_issue: the body has a placeholder of each kind
file_issue_steps ==
  (IF variant = "repo" THEN guarded_read("template_issues") ELSE <<>>)
    \o guarded_read("prs") \o guarded_read("issues")
    \o <<Await("create_issue")>>
    \o infer_state_update_steps

file_feature_and_issue_steps ==
  file_pr_steps \o infer_state_update_steps \o file_issue_steps

file_solution_steps == file_pr_steps \o infer_state_update_steps

skip_to_stage_steps ==
  <<Git("reset")>> \o file_issue_steps \o <<Await("close_issue")>>
    \o infer_state_update_steps

\* the commands of the interface
UiOps == {"refresh_state", "file_feature_and_issue", "file_solution",
          "skip_to_stage"}

Program(op) ==
  IF op = "infer_state_loop" THEN infer_state_loop_steps
  ELSE IF op = "refresh_state" THEN infer_state_update_steps
  ELSE IF op = "file_feature_and_issue" THEN file_feature_and_issue_steps
  ELSE IF op = "file_solution" THEN file_solution_steps
  ELSE IF op = "skip_to_stage" THEN skip_to_stage_steps
  ELSE <<>>

UiTasks == {"ui1", "ui2"}

\* the tasks that are looked at
TaskIds == DOMAIN tasks.of

NothingSeen == [prs |-> 0, issues |-> 0]

Task(op, pc) ==
  [op |-> op, pc |-> pc, fetch |-> 0, held |-> {}, seen |-> NothingSeen,
   git |-> FALSE]

\* after load: the caches hold what the fetch of load listed, the poll task
\* is spawned and no command runs
Spawned(ids) ==
  [of |-> [t \in ids |-> IF t = "poll" THEN Task("infer_state_loop", 1)
                         ELSE Task("none", 1)],
   fetches |-> 1,
   published |-> [prs |-> 1, issues |-> 1]]

Loaded ==
  /\ stages = StagesOf(<<None>>)
  /\ variant = "repo"
  /\ origin = <<>>
  /\ branches = {}
  /\ main_base = "initial"
  /\ cache = [prs |-> Some(<<>>), issues |-> Some(<<>>)]
  /\ emitted = Some(Descriptor(GroundState, cache))
  /\ faulty = FALSE
  /\ package = NoPackage
  /\ last = [op |-> "load", arg |-> 0, res |-> "ok", before |-> GroundState,
             out |-> None]

\* the poll task and one command at a time
InitTasks == Loaded /\ tasks = Spawned({"poll", "ui1"})

\* two commands at a time
InitCommands == Loaded /\ tasks = Spawned(UiTasks)

Running(t) == tasks.of[t].pc <= Len(Program(tasks.of[t].op))

Current(t) == Program(tasks.of[t].op)[tasks.of[t].pc]

NextIs(t, kind) == Running(t) /\ Current(t).kind = kind

Holders(c) == {t \in TaskIds : c \in tasks.of[t].held}

Becomes(t, task) ==
  /\ tasks' = [tasks EXCEPT !.of[t] = task]
  /\ UNCHANGED <<stages, variant, origin, branches, main_base, cache, emitted,
                 last, faulty, package>>

Advanced(t) == [tasks.of[t] EXCEPT !.pc = @ + 1]

\* the interface invokes a command; the runtime spawns it as a task
Invoke(t, op) ==
  /\ tasks.of[t].op = "none"
  /\ Becomes(t, Task(op, 1))

\* a remote call or the sleep of the poll task completes
Resume(t) ==
  /\ NextIs(t, "await")
  /\ Becomes(t, [Advanced(t) EXCEPT !.seen = NothingSeen])

\* the two listings of a fetch are answered
ListFetch(t) ==
  /\ NextIs(t, "list")
  /\ tasks.fetches < MaxFetches
  /\ tasks' = [tasks EXCEPT !.fetches = @ + 1,
                            !.of[t] = [Advanced(t) EXCEPT
                                         !.fetch = tasks.fetches + 1,
                                         !.seen = NothingSeen]]
  /\ UNCHANGED <<stages, variant, origin, branches, main_base, cache, emitted,
                 last, faulty, package>>

\* *self.prs.lock() = Some(..) and *self.issues.lock() = Some(..)
PublishCache(t) ==
  /\ NextIs(t, "publish")
  /\ Holders(Current(t).on) = {}
  /\ tasks' = [tasks EXCEPT !.published[Current(t).on] = tasks.of[t].fetch,
                            !.of[t] = Advanced(t)]
  /\ UNCHANGED <<stages, variant, origin, branches, main_base, cache, emitted,
                 last, faulty, package>>

\* what a reader has seen of the caches of the origin since it last resumed
Seen(t, c) ==
  IF c \in {"prs", "issues"}
    THEN [tasks.of[t].seen EXCEPT ![c] = tasks.published[c]]
  ELSE tasks.of[t].seen

\* prs(), pr(), issues() or issue() locks the cache and reads it
TakeGuard(t) ==
  /\ NextIs(t, "guard")
  /\ Holders(Current(t).on) = {}
  /\ Becomes(t, [Advanced(t) EXCEPT !.held = @ \cup {Current(t).on},
                                    !.seen = Seen(t, Current(t).on)])

DropGuard(t) ==
  /\ NextIs(t, "drop")
  /\ Becomes(t, [Advanced(t) EXCEPT !.held = @ \ {Current(t).on}])

\* a git operation starts and ends on the thread of its task
GitBegin(t) ==
  /\ NextIs(t, "git")
  /\ ~tasks.of[t].git
  /\ Becomes(t, [tasks.of[t] EXCEPT !.git = TRUE])

GitEnd(t) ==
  /\ NextIs(t, "git")
  /\ tasks.of[t].git
  /\ Becomes(t, [Advanced(t) EXCEPT !.git = FALSE])

EmitState(t) ==
  /\ NextIs(t, "emit")
  /\ Becomes(t, Advanced(t))

\* a command returns; the poll task starts its next turn
Return(t) ==
  /\ ~Running(t)
  /\ tasks.of[t].op # "none"
  /\ Becomes(t, IF t = "poll" THEN [tasks.of[t] EXCEPT !.pc = 1]
                ELSE [tasks.of[t] EXCEPT !.op = "none", !.pc = 1])

NextTasks ==
  \E t \in TaskIds :
    \/ \E op \in UiOps : t \in UiTasks /\ Invoke(t, op)
    \/ Resume(t)
    \/ ListFetch(t)
    \/ PublishCache(t)
    \/ TakeGuard(t)
    \/ DropGuard(t)
    \/ GitBegin(t)
    \/ GitEnd(t)
    \/ EmitState(t)
    \/ Return(t)

SpecTasks == InitTasks /\ [][NextTasks]_vars

SpecCommands == InitCommands /\ [][NextTasks]_vars

\* C16 as stated: no reader of the caches sees, between two of its
\* suspension points, the pulls that one fetch published together with the
\* issues that another fetch published.
C16_SnapshotPublishedAtomically ==
  \A t \in TaskIds :
    (tasks.of[t].seen.prs # 0 /\ tasks.of[t].seen.issues # 0) =>
      tasks.of[t].seen.prs = tasks.of[t].seen.issues

\* C18 as stated: at no time are two git operations in progress.
C18_GitSerial ==
  Cardinality({t \in TaskIds : tasks.of[t].git}) <= 1

\* C19: a task whose next step is a suspension point, and a task that has
\* returned, holds no guard on a cache.
C19_NoGuardAcrossAwait ==
  \A t \in TaskIds :
    (~Running(t) \/ Current(t).kind \in {"await", "list"}) =>
      tasks.of[t].held = {}

\* the poll task has read the caches for the descriptor and is at its sleep
\* while a command is between taking and dropping a guard
C19_Witness ==
  /\ NextIs("poll", "await")
  /\ Current("poll").on = "sleep"
  /\ tasks.of["poll"].seen.prs # 0
  /\ tasks.of["ui1"].held # {}

\* ------------------------------------------ commands with any argument
\* The commands take the chapter as a number that the interface sends: here
\* they are called with every number up to MaxStages, whatever the state of
\* the quest, as long as the origin has fewer than MaxCallItems items.
StageArguments == 0..MaxStages

NextCalls ==
  /\ Len(origin) < MaxCallItems
  /\ \/ \E idx \in StageArguments : FileFeatureAndIssue(idx)
     \/ \E idx \in StageArguments : FileSolution(idx)
     \/ \E idx \in StageArguments : SkipToStage(idx)
     \/ RefreshState

SpecCalls == Init /\ [][NextCalls]_vars

\* C20 as stated: file_feature_and_issue(stage), file_solution(stage),
\* skip_to_stage(stage) and refresh_state complete or return an error value
\* for every stage argument; none aborts its task.
C20_NoCommandAborts ==
  last.op \in {"file_feature_and_issue", "file_solution", "skip_to_stage",
               "refresh_state"}
    => last.res \in {"ok", "err"}

\* ------------------------------------------------- the branch parser
\* a head ref of the form <label>-<p>, label a chapter's label, p a or b
ChapterBranch(head) ==
  \E k \in 1..Len(stages), part \in {"Starter", "Solution"} :
    head = branch_name(stages[k], part)

\* the tuples of the pulls in an answered inference
PullTuples ==
  pr_stages(ListPulls(origin, PerPage), issue_map(ListIssues(origin, PerPage)))

\* C25: the branch parser accepts the head ref of a pull only when it is
\* <label>-a or <label>-b of a chapter, and then answers that chapter and
\* part; a pull with any other head ref is rejected, and every tuple that
\* the pulls contribute to an inference is the one of an accepted pull.
C25_ParserAcceptsChapterBranches ==
  /\ \A k \in DOMAIN origin :
       IsPull(origin[k]) =>
         LET parsed == parse_stage(origin[k])
         IN /\ parsed # None => ChapterBranch(origin[k].head)
            /\ ~ChapterBranch(origin[k].head) => parsed = None
            /\ parsed # None =>
                 origin[k].head = branch_name(parsed[1][1], parsed[1][2])
  /\ (last.op = "infer_state" /\ last.arg[3] = "ok") =>
       \A t \in PullTuples :
         \E k \in DOMAIN origin :
           /\ IsPull(origin[k]) /\ ChapterBranch(origin[k].head)
           /\ origin[k].head = branch_name(t[1], t[2])

\* C25 happens: an origin with a pull of part c of a chapter and a pull of
\* an unknown label was inferred, and no tuple came of them.
C25_Witness ==
  /\ last.op = "infer_state" /\ last.arg[3] = "ok"
  /\ \E k \in DOMAIN origin :
       IsPull(origin[k]) /\ origin[k].head = LabelAt(0) \o <<"-", "c">>
  /\ \E k \in DOMAIN origin :
       IsPull(origin[k]) /\ origin[k].head = <<"z", "-", "a">>
  /\ PullTuples = {}
  /\ last.out = Some(GroundState)

\* ------------------------------------------------ the tuples of the pulls
\* the tuple claimed for the pull at position j of the listing, a pull of
\* part `part` of the chapter at position k
ClaimedTuple(prs, imap, k, part, j) ==
  <<stages[k], part,
    prs[j].merged /\ (part = "Starter"
                        \/ (stages[k].label \in DOMAIN imap
                              /\ imap[stages[k].label].state = "closed"))>>

\* the pulls of the listing that are pulls of a chapter part
ChapterPulls(prs) ==
  {x \in (1..Len(stages)) \X {"Starter", "Solution"} \X DOMAIN prs :
     prs[x[3]].head = branch_name(stages[x[1]], x[2])}

\* C28: in an answered inference every pull whose head ref is <label>-a or
\* <label>-b of a chapter contributes the tuple (chapter, part, finished)
\* with finished = merged and (part = Starter or the chapter's issue of
\* issue_map is closed), which is (chapter, Solution, false) for a merged
\* solution pull whose chapter has no issue in issue_map; the pulls
\* contribute nothing else.
C28_EveryParsedPullGivesTuple ==
  (last.op = "infer_state" /\ last.arg[3] = "ok") =>
    PullTuples =
      {ClaimedTuple(ListPulls(origin, PerPage),
                    issue_map(ListIssues(origin, PerPage)), x[1], x[2], x[3]) :
         x \in ChapterPulls(ListPulls(origin, PerPage))}

\* ------------------------------------------------- the greatest tuple
\* the keys (chapter_index, part, finished) of all tuples of the origin
TupleKeys == {Key(t) : t \in Tuples(origin)}

\* the lexicographic order with Starter < Solution and false < true
LexBelow(a, b) ==
  \/ a[1] < b[1]
  \/ a[1] = b[1] /\ a[2] = "Starter" /\ b[2] = "Solution"
  \/ a[1] = b[1] /\ a[2] = b[2] /\ ~a[3] /\ b[3]

\* the state claimed for the greatest key
ClaimedState(m) ==
  IF ~m[3] THEN Ongoing(m[1], m[2], "Ongoing")
  ELSE IF m[2] = "Starter" THEN Ongoing(m[1], "Solution", "Start")
  ELSE IF m[1] = NumStages - 1 THEN Completed
  ELSE Ongoing(m[1] + 1, "Starter", "Start")

\* C29: an answered inference over an origin with tuples returns the state
\* of the lexicographic maximum (chapter_index, part, finished) of all pull
\* and issue tuples, Starter < Solution and false < true: not finished
\* gives Ongoing{chapter, part, Ongoing}, a finished Starter gives
\* Ongoing{chapter, Solution, Start}, a finished Solution gives Completed
\* for the last chapter and Ongoing{chapter + 1, Starter, Start} otherwise.
C29_StateOfGreatestTuple ==
  (last.op = "infer_state" /\ last.arg[3] = "ok" /\ TupleKeys # {}) =>
    \E m \in TupleKeys :
      /\ \A u \in TupleKeys : u = m \/ LexBelow(u, m)
      /\ last.out = Some(ClaimedState(m))

\* C29 happens: a merged starter pull and an open solution pull of chapter
\* 0 are on the origin, and the unfinished solution part decided.
C29_Witness ==
  /\ last.op = "infer_state" /\ last.arg[3] = "ok"
  /\ <<0, "Starter", TRUE>> \in TupleKeys
  /\ <<0, "Solution", FALSE>> \in TupleKeys
  /\ last.out = Some(Ongoing(0, "Solution", "Ongoing"))

\* --------------------------------------------- issues that are pulls
\* C26: whatever was fetched, the cached issues hold no entry that is a
\* pull (an entry of the issue listing with a pull-request reference), and
\* no entry of the issue_map of state inference is one.
C26_NoPullAmongIssues ==
  /\ cache.issues # None =>
       \A k \in DOMAIN cache.issues[1] : ~IsPull(cache.issues[1][k])
  /\ \A l \in DOMAIN issue_map(ListIssues(origin, PerPage)) :
       ~IsPull(issue_map(ListIssues(origin, PerPage))[l])

\* C26 happens: a refresh fetched an origin whose issue listing holds a
\* pull labelled like the issue of its chapter, and cached the issue only.
C26_Witness ==
  /\ last.op = "refresh_state" /\ last.res = "ok"
  /\ \E j \in DOMAIN origin, k \in DOMAIN origin :
       /\ IsPull(origin[j]) /\ IsIssue(origin[k])
       /\ origin[j].labels # <<>> /\ origin[k].labels # <<>>
       /\ origin[j].labels[1] = origin[k].labels[1]
  /\ Len(cache.issues[1]) > 0
  /\ Len(cache.prs[1]) + Len(cache.issues[1]) = Len(origin)

\* ------------------------------------------------------ fetch and load
\* Pulls and issues appear on an origin whose listings may fail; the cache
\* is fetched, and a repository object is loaded anew, any number of times.
\* r1 and r2 are the answers of the two listings, joined what try_join!
\* reports of them, comments the answer of the comment listings. The quest
\* has one chapter: fetch and load do not look at the chapters.
InitFetch ==
  /\ stages = StagesOf(<<None>>)
  /\ variant = "repo"
  /\ origin = <<>>
  /\ branches = {}
  /\ main_base = "initial"
  /\ cache = [prs |-> Some(<<>>), issues |-> Some(<<>>)]
  /\ emitted = Some(Descriptor(GroundState, cache))
  /\ faulty = TRUE
  /\ tasks = NoTasks
  /\ package = NoPackage
  /\ last = [op |-> "load", arg |-> <<"ok", "ok", "ok", "ok">>, res |-> "ok",
             before |-> GroundState, out |-> cache]

Fetched(op, arg, c, r) ==
  /\ cache' = r.cache
  /\ last' = [op |-> op, arg |-> arg, res |-> r.res, before |-> GroundState,
              out |-> c]
  /\ UNCHANGED <<stages, variant, origin, branches, main_base, emitted,
                 faulty, tasks, package>>

Fetch(r1, r2, comments) ==
  \E joined \in try_join(r1, r2) :
    Fetched("fetch", <<r1, r2, joined, comments>>, cache,
            fetch(origin, cache, joined, comments))

Load(r1, r2, comments) ==
  \E joined \in try_join(r1, r2) :
    Fetched("load", <<r1, r2, joined, comments>>, NewCache,
            github_load(fetch(origin, NewCache, joined, comments)))

NextFetch ==
  \/ \E it \in ItemStates : Appear(it)
  \/ \E r1 \in Resp, r2 \in Resp, comments \in Resp \ {"404"} :
       Fetch(r1, r2, comments)
  \/ \E r1 \in Resp, r2 \in Resp, comments \in Resp \ {"404"} :
       Load(r1, r2, comments)

SpecFetch == InitFetch /\ [][NextFetch]_vars

\* the snapshot a fetch takes of the origin
Snapshot ==
  [prs |-> Some(ListPulls(origin, FetchPerPage)),
   issues |-> Some(OnlyIssues(ListIssues(origin, FetchPerPage)))]

\* a comment listing was asked for and failed
CommentsFailed ==
  /\ last.arg[1] = "ok" /\ last.arg[2] = "ok" /\ last.arg[4] = "err"
  /\ \E k \in DOMAIN origin : IsPull(origin[k])

\* C27 as stated: fetch returns false when the listing of the pulls or of
\* the issues answers 404, an error for any other failure of a listing or
\* of a comment listing, and true only with both caches replaced; load
\* fails when its fetch returns false.
C27_Original ==
  /\ last.op = "fetch" =>
       /\ "404" \in {last.arg[1], last.arg[2]} => last.res = "false"
       /\ ("404" \notin {last.arg[1], last.arg[2]}
             /\ "err" \in {last.arg[1], last.arg[2]}) => last.res = "err"
       /\ CommentsFailed => last.res = "err"
       /\ last.res = "true" => cache = Snapshot
  /\ last.op = "load" =>
       ("404" \in {last.arg[1], last.arg[2]} => last.res = "err")

\* C27: the failure that the join of the two listings reports decides what
\* fetch returns: false for a reported 404, an error for any other
\* reported failure and for a failed comment listing, so a 404 of one
\* listing gives false for sure only when the other listing did not fail
\* otherwise; fetch returns true only with both caches replaced by the
\* snapshot, and leaves them alone otherwise; load succeeds exactly when
\* its fetch returns true.
C27_ReportedFailureDecides ==
  /\ last.op = "fetch" =>
       /\ last.arg[3] = "404" => last.res = "false"
       /\ last.arg[3] = "err" => last.res = "err"
       /\ ("404" \in {last.arg[1], last.arg[2]}
             /\ "err" \notin {last.arg[1], last.arg[2]}) => last.res = "false"
       /\ ("404" \notin {last.arg[1], last.arg[2]}
             /\ "err" \in {last.arg[1], last.arg[2]}) => last.res = "err"
       /\ CommentsFailed => last.res = "err"
       /\ last.res = "true" => cache = Snapshot
       /\ last.res # "true" => cache = last.out
  /\ last.op = "load" =>
       /\ last.res \in {"ok", "err"}
       /\ last.res = "ok" <=>
            /\ last.arg[3] = "ok"
            /\ ~CommentsFailed
       /\ last.res = "ok" => cache = Snapshot
       /\ last.arg[3] = "404" => last.res = "err"

\* C27 happens: the pull listing of a load answered 404 while the issue
\* listing answered an issue, the load failed and nothing was cached.
C27_Witness ==
  /\ last.op = "load"
  /\ last.arg[1] = "404" /\ last.arg[2] = "ok"
  /\ last.res = "err"
  /\ \E k \in DOMAIN origin : IsIssue(origin[k])
  /\ cache = NewCache

\* ------------------------------------------------------------ package.rs
\* A quest directory is built into a package, a package is saved to a file
\* and a file is loaded into a package. A chapter may have no_starter
\* unset, true or false.
PackageConfigs == UNION {[1..k -> {None, Some(TRUE), Some(FALSE)}] : k \in 1..MaxPackageStages}

\* GitRepo::diff of two branches: the text of a patch
Diff(base, head) == <<"diff", base, head>>

\* GitRepo::read_initial_files
InitialFiles == [f \in {<<"README">>} |-> <<"initial">>]

\* the labels of the template repository
RepoLabels == [k \in 1..Len(stages) |-> stages[k].label]

\* the package of QuestPackage::build; its index is left empty
Built ==
  [version |-> "version",
   config |-> stages,
   issues |-> OnlyIssues(ListIssues(TemplateItems, FetchPerPage)),
   prs |-> ListPulls(TemplateItems, FetchPerPage),
   initial |-> InitialFiles,
   patches |-> [k \in DOMAIN patches |->
                  [base |-> patches[k].base, head |-> patches[k].head,
                   patch |-> Diff(patches[k].base, patches[k].head)]],
   patch_map |-> <<>>,
   labels |-> RepoLabels]

\* QuestPackage::build; failing names the step that fails: the loading of
\* the configuration, of the template repository, of the initial files or
\* of the labels ("load"), the diff of a patch ("diff"), or nothing
QuestPackage_build(failing) ==
  IF failing = "none" THEN Ok(Built) ELSE Err

\* serde_json::to_writer_pretty of a package: an object with a member for
\* every field but the skipped index
serialize(pkg) ==
  <<<<"version", pkg.version>>, <<"config", pkg.config>>,
    <<"issues", pkg.issues>>, <<"prs", pkg.prs>>,
    <<"initial", pkg.initial>>, <<"patches", pkg.patches>>,
    <<"labels", pkg.labels>>>>

\* the member of an object with a name
Member(json, name) ==
  json[CHOOSE k \in DOMAIN json : json[k][1] = name][2]

\* collect::<HashMap<_, _>>() of ((base, head), i): the index, from 0, of
\* the last patch with that base and head
patch_map_of(ps) ==
  [key \in {<<ps[k].base, ps[k].head>> : k \in DOMAIN ps} |->
     (CHOOSE k \in DOMAIN ps :
        /\ <<ps[k].base, ps[k].head>> = key
        /\ \A j \in DOMAIN ps : <<ps[j].base, ps[j].head>> = key => j <= k) - 1]

\* deserialize if the skipped index were left as serde makes it
deserialize_without_index(json) ==
  [version |-> Member(json, "version"),
   config |-> Member(json, "config"),
   issues |-> Member(json, "issues"),
   prs |-> Member(json, "prs"),
   initial |-> Member(json, "initial"),
   patches |-> Member(json, "patches"),
   patch_map |-> <<>>,
   labels |-> Member(json, "labels")]

\* QuestPackage::deserialize: the members, then the index rebuilt
deserialize(json) ==
  [version |-> Member(json, "version"),
   config |-> Member(json, "config"),
   issues |-> Member(json, "issues"),
   prs |-> Member(json, "prs"),
   initial |-> Member(json, "initial"),
   patches |-> Member(json, "patches"),
   patch_map |-> patch_map_of(Member(json, "patches")),
   labels |-> Member(json, "labels")]

\* QuestPackage::patch
QuestPackage_patch(pkg, key) ==
  IF key \in DOMAIN pkg.patch_map THEN Some(pkg.patch_map[key]) ELSE None

\* ------------------------------------------- git.rs, the run of apply_patch
\* A git command that was run, and whether it succeeded.
Ran(cmd, ok) == [cmd |-> cmd, ok |-> ok]

\* `for patch in patches { self.apply(patch)?; }` from patch k on; failing
\* is the position of the patch that does not apply, 0 when all do
RECURSIVE replay(_, _, _)
replay(k, n, failing) ==
  IF k > n THEN <<>>
  ELSE IF k = failing THEN <<Ran(<<"apply", k>>, FALSE)>>
  ELSE <<Ran(<<"apply", k>>, TRUE)>> \o replay(k + 1, n, failing)

\* git add . and git commit -m 'Starter code'; failed names the plain git
\* command that fails, "none" when none does
staged_and_committed(log, merge_type, failed) ==
  IF failed = "add" THEN [ok |-> FALSE, log |-> Append(log, Ran(<<"add">>, FALSE))]
  ELSE IF failed = "commit"
    THEN [ok |-> FALSE,
          log |-> log \o <<Ran(<<"add">>, TRUE), Ran(<<"commit">>, FALSE)>>]
  ELSE [ok |-> TRUE, val |-> merge_type,
        log |-> log \o <<Ran(<<"add">>, TRUE), Ran(<<"commit">>, TRUE)>>]

\* the rest of apply_patch once the replay was run
replayed(log, n, failing, failed) ==
  IF failing \in 1..n THEN [ok |-> FALSE, log |-> log]
  ELSE staged_and_committed(log, "StarterReset", failed)

\* apply_patch if the replay began after the reset with the last patch
git_apply_patch_run_replays_last(n, applied, failing, failed) ==
  IF applied
    THEN staged_and_committed(<<Ran(<<"apply", n>>, TRUE)>>, "Success", failed)
  ELSE IF failed = "reset"
    THEN [ok |-> FALSE,
          log |-> <<Ran(<<"apply", n>>, FALSE), Ran(<<"reset", "initial">>, FALSE)>>]
  ELSE replayed(<<Ran(<<"apply", n>>, FALSE), Ran(<<"reset", "initial">>, TRUE)>>
                  \o replay(n, n, failing),
                n, failing, failed)

\* GitRepo::apply_patch on a chain of n patches, command by command:
\* applied tells whether the last patch applies on the learner's tree
git_apply_patch_run(n, applied, failing, failed) ==
  IF applied
    THEN staged_and_committed(<<Ran(<<"apply", n>>, TRUE)>>, "Success", failed)
  ELSE IF failed = "reset"
    THEN [ok |-> FALSE,
          log |-> <<Ran(<<"apply", n>>, FALSE), Ran(<<"reset", "initial">>, FALSE)>>]
  ELSE replayed(<<Ran(<<"apply", n>>, FALSE), Ran(<<"reset", "initial">>, TRUE)>>
                  \o replay(1, n, failing),
                n, failing, failed)

\* PackageTemplate::apply_patch: the chain is patches[..=patch_index]
PackageTemplate_apply_patch(pkg, key, applied, failing, failed) ==
  IF QuestPackage_patch(pkg, key) = None THEN [ok |-> FALSE, log |-> <<>>]
  ELSE git_apply_patch_run(QuestPackage_patch(pkg, key)[1] + 1, applied,
                           failing, failed)

\* the pairs of branches that file_feature_and_issue and file_solution ask
\* a patch for
AskedPairs ==
  {<<StarterBase(k), branch_name(stages[k], "Starter")>> : k \in DOMAIN stages}
  \cup {<<SolutionBase(k), branch_name(stages[k], "Solution")>> : k \in DOMAIN stages}

InitPackage ==
  /\ stages \in {StagesOf(cfg) : cfg \in PackageConfigs}
  /\ variant = "package"
  /\ origin = <<>>
  /\ branches = {}
  /\ main_base = "initial"
  /\ cache = [prs |-> Some(<<>>), issues |-> Some(<<>>)]
  /\ emitted = Some(Descriptor(GroundState, cache))
  /\ faulty = TRUE
  /\ tasks = NoTasks
  /\ package = NoPackage
  /\ last = [op |-> "none", arg |-> 0, res |-> "ok", before |-> GroundState,
             out |-> None]

Packaged(op, arg, res, pkg) ==
  /\ package' = pkg
  /\ last' = [op |-> op, arg |-> arg, res |-> res, before |-> GroundState,
              out |-> None]
  /\ UNCHANGED <<stages, variant, origin, branches, main_base, cache, emitted,
                 faulty, tasks>>

\* rq-cli: QuestPackage::build
Build(failing) ==
  LET built == QuestPackage_build(failing)
  IN IF built.ok
       THEN Packaged("build", failing, "ok",
                     [package EXCEPT !.built = Some(built.val)])
     ELSE Packaged("build", failing, "err", package)

\* QuestPackage::save of the package that was built
Save(created) ==
  /\ package.built # None
  /\ IF created
       THEN Packaged("save", 0, "ok",
                     [package EXCEPT !.file = Some(serialize(package.built[1]))])
     ELSE Packaged("save", 0, "err", package)

\* QuestPackage::load_from_file on the file that was saved, or on none
LoadFromFile ==
  IF package.file = None THEN Packaged("load_from_file", 0, "err", package)
  ELSE Packaged("load_from_file", 0, "ok",
                [package EXCEPT !.loaded = Some(deserialize(package.file[1]))])

\* PackageTemplate::apply_patch on the package that was loaded; a run does
\* not depend on the run before it, so runs are looked at one by one
ApplyPatch(key, applied, failing, failed) ==
  /\ package.loaded # None
  /\ last.op # "apply_patch"
  /\ LET run == PackageTemplate_apply_patch(package.loaded[1], key, applied,
                                            failing, failed)
     IN last' = [op |-> "apply_patch",
                 arg |-> [key |-> key, applied |-> applied,
                          failing |-> failing, failed |-> failed],
                 res |-> IF run.ok THEN "ok" ELSE "err",
                 before |-> GroundState,
                 out |-> [log |-> run.log,
                          merge_type |-> IF run.ok THEN Some(run.val) ELSE None]]
  /\ UNCHANGED <<stages, variant, origin, branches, main_base, cache, emitted,
                 faulty, tasks, package>>

NextPackage ==
  \/ \E failing \in {"none", "load"}
                       \cup (IF patches = <<>> THEN {} ELSE {"diff"}) :
       Build(failing)
  \/ \E created \in BOOLEAN : Save(created)
  \/ LoadFromFile
  \/ \E key \in AskedPairs, applied \in BOOLEAN, failing \in 0..Len(patches),
          failed \in {"none", "reset", "add", "commit"} :
       ApplyPatch(key, applied, failing, failed)

SpecPackage == InitPackage /\ [][NextPackage]_vars

\* the patches of the package that was built with a given head
PatchesWithHead(head) ==
  {j \in DOMAIN package.built[1].patches : package.built[1].patches[j].head = head}

\* C23: in a package that was built, every chapter with no_starter unset
\* has exactly one patch with head <label>-a, whose base is <prev-label>-b
\* of the chapter before, or main for the first chapter; the patches are in
\* the order of their chapters; a chapter with no_starter = true has no
\* patch.
C23_OnePatchPerStarter ==
  package.built # None =>
    LET ps == package.built[1].patches
        head(k) == stages[k].label \o <<"-", "a">>
        base(k) == IF k = 1 THEN <<"m", "a", "i", "n">>
                   ELSE stages[k - 1].label \o <<"-", "b">>
    IN /\ \A k \in DOMAIN stages :
            stages[k].no_starter = None =>
              /\ Cardinality(PatchesWithHead(head(k))) = 1
              /\ \A j \in PatchesWithHead(head(k)) : ps[j].base = base(k)
       /\ \A k \in DOMAIN stages :
            stages[k].no_starter = Some(TRUE) => PatchesWithHead(head(k)) = {}
       /\ \A k1 \in DOMAIN stages, k2 \in DOMAIN stages :
            \A j1 \in PatchesWithHead(head(k1)), j2 \in PatchesWithHead(head(k2)) :
              k1 < k2 => j1 < j2

\* C23 happens: a package was built of three chapters, the second without
\* starter, and holds the patches of the first and the third.
C23_Witness ==
  /\ package.built # None
  /\ Len(stages) = 3
  /\ stages[1].no_starter = None
  /\ stages[2].no_starter = Some(TRUE)
  /\ stages[3].no_starter = None
  /\ Len(package.built[1].patches) = 2
  /\ package.built[1].patches[2].base = stages[2].label \o <<"-", "b">>

Succeeded(log, cmd) == {k \in DOMAIN log : log[k].cmd = cmd /\ log[k].ok}

\* the position, from 1, in the patches of the loaded package of the patch
\* that was asked for; 0 when the package has none for the pair
AskedPatch ==
  LET ps == package.loaded[1].patches
      S == {k \in DOMAIN ps : <<ps[k].base, ps[k].head>> = last.arg.key}
  IN IF S = {} THEN 0 ELSE CHOOSE k \in S : TRUE

\* C30: apply_patch of a package first applies the last patch of the chain
\* up to the requested index and nothing else; if it applies, the result
\* is Success; if not, the tree is reset to the initial tag and the patches
\* of the chain are applied from the first to the last in order, giving
\* StarterReset; in both cases one 'Starter code' commit is made, after
\* everything else, and a patch of the replay that does not apply returns
\* an error without a commit.
C30_PackageMerge ==
  (last.op = "apply_patch" /\ AskedPatch > 0) =>
    LET n == AskedPatch
        log == last.out.log
        commits == Succeeded(log, <<"commit">>)
        git_fails == last.arg.failed # "none"
        replay_fails == last.arg.failing \in 1..n
    IN /\ log[1].cmd = <<"apply", n>>
       /\ last.arg.applied =>
            /\ Succeeded(log, <<"apply", n>>) = {1}
            /\ \A k \in DOMAIN log : log[k].cmd[1] \notin {"reset"}
            /\ \A k \in DOMAIN log : log[k].cmd[1] = "apply" => k = 1
            /\ ~git_fails =>
                 (last.res = "ok" /\ last.out.merge_type = Some("Success"))
       /\ ~last.arg.applied =>
            /\ ~log[1].ok
            /\ log[2].cmd = <<"reset", "initial">>
            /\ (~git_fails /\ ~replay_fails) =>
                 /\ last.res = "ok"
                 /\ last.out.merge_type = Some("StarterReset")
                 /\ \A k \in 1..n : log[2 + k] = Ran(<<"apply", k>>, TRUE)
                 /\ Len(log) = n + 4
            /\ (last.arg.failed # "reset" /\ replay_fails) =>
                 /\ last.res = "err"
                 /\ commits = {}
                 /\ log[Len(log)] = Ran(<<"apply", last.arg.failing>>, FALSE)
       /\ last.res = "ok" => commits = {Len(log)}
       /\ last.res = "err" => commits = {}

\* C30 happens: the third patch of a loaded package did not apply, the
\* tree was reset and the three patches were replayed and committed.
C30_Witness ==
  /\ last.op = "apply_patch" /\ last.res = "ok"
  /\ AskedPatch = 3
  /\ ~last.arg.applied
  /\ last.out.merge_type = Some("StarterReset")
  /\ Len(last.out.log) = 7

\* ------------------------------------------------- calls that may fail
\* The remote calls and the git commands that Quest::create makes before
\* load_core, in their order: GithubRepo::load of the upstream, instantiate
\* (instantiate_from_repo or instantiate_from_package, clone, setup_upstream
\* and QuestConfig::load, or write_initial_files) and install_hooks.
create_calls ==
  IF variant = "repo"
    THEN <<"list upstream", "current user", "generate", "list commits",
           "unsubscribe", "list labels", "create labels", "git clone",
           "git remote add", "git fetch", "git show", "git config">>
    ELSE <<"current user", "create repo", "list commits", "unsubscribe",
           "create labels", "git clone", "git add", "git commit", "git tag",
           "git push", "git checkout -b meta", "git add meta",
           "git commit meta", "git push meta", "git checkout main",
           "git config">>

\* those of Quest::load before load_core; "git remote get-url" stands for
\* the command that could not be run, its exit status being has_upstream
load_calls ==
  <<"current user", "git show", "list origin", "git remote get-url">>
  \o (IF has_upstream THEN <<"list upstream">> ELSE <<"git show package">>)

CallAt(calls, name) == CHOOSE i \in DOMAIN calls : calls[i] = name

\* the call numbered failing is the first whose failure is not retried: 0
\* when there is none
Reached(calls, name, failing) ==
  failing = 0 \/ CallAt(calls, name) < failing

\* wait_for_content: a test_repo that fails or answers something else is
\* tried again until the timeout; retried tells that a try failed before
\* one answered what is expected
wait_for_content(w, failing, retried) ==
  IF retried /\ Reached(create_calls, "list commits", failing)
    THEN Fault(w, "list commits, retried")
  ELSE w

\* Quest::create: the calls, then load_core over the new origin, whose
\* caches are empty
Quest_create(w, failing, retried) ==
  LET new == [w EXCEPT !.origin = <<>>, !.branches = {},
                       !.main_base = "initial", !.cache = NewCache,
                       !.emitted = None]
      waited == wait_for_content(new, failing, retried)
  IN IF failing # 0 THEN {Failed(Fault(waited, create_calls[failing]))}
     ELSE infer_state_update(waited)

\* GitRepo::has_upstream in a clone that has no such remote: the command
\* exits with an error and the answer is false
probed(w, failing) ==
  IF ~has_upstream /\ Reached(load_calls, "git remote get-url", failing)
       /\ failing # CallAt(load_calls, "git remote get-url")
    THEN Fault(w, "git remote get-url, exit status")
  ELSE w

\* Quest::load: the calls, GithubRepo::load having fetched the origin, then
\* load_core
Quest_load(w, failing) ==
  LET loaded == github_load(fetch(w.origin, NewCache, "ok", "ok"))
  IN IF failing # 0 THEN {Failed(Fault(probed(w, failing), load_calls[failing]))}
     ELSE infer_state_update(probed([w EXCEPT !.cache = loaded.cache], 0))

\* the application starts over a quest that may have been created before
InitFaults ==
  /\ stages \in {StagesOf(cfg) : cfg \in Configs(MaxInferStages)}
  /\ variant \in {"repo", "package"}
  /\ origin = <<>>
  /\ branches = {}
  /\ main_base = "initial"
  /\ cache = NewCache
  /\ emitted = None
  /\ faulty = TRUE
  /\ tasks = NoTasks
  /\ package = NoPackage
  /\ last = [op |-> "none", arg |-> 0, res |-> "ok", before |-> GroundState,
             out |-> None]

CreateQuest(failing, retried) ==
  /\ last.op = "none"
  /\ \E w \in Quest_create(Here, failing, retried) :
       Leave(w, "create", <<failing, retried>>)

LoadQuest(failing) ==
  /\ last.op = "none"
  /\ \E w \in Quest_load(Here, failing) : Leave(w, "load", failing)

\* a quest is created or loaded, a command is called and the state is
\* refreshed; each call of an operation may fail
NextFaults ==
  \/ \E failing \in 0..Len(create_calls), retried \in BOOLEAN :
       CreateQuest(failing, retried)
  \/ \E failing \in 0..Len(load_calls) : LoadQuest(failing)
  \/ /\ last.op \in {"create", "load"}
     /\ last.res = "ok"
     /\ \/ \E idx \in Stages : FileIssue(idx)
        \/ \E idx \in Stages : FileFeatureAndIssue(idx)
        \/ \E idx \in Stages : FileSolution(idx)
        \/ \E idx \in Stages : SkipToStage(idx)
  \/ /\ emitted # None
     /\ last.op # "refresh_state"
     /\ RefreshState

SpecFaults == InitFaults /\ [][NextFaults]_vars

QuestOperations ==
  {"create", "load", "file_issue", "file_feature_and_issue", "file_solution",
   "skip_to_stage", "refresh_state"}

\* the failures that are not returned: a listing of infer_state_update that
\* answers 404, a test_repo that is tried again, the exit status of the
\* command that has_upstream runs
NotReturned ==
  {"fetch 404", "infer_state 404", "list commits, retried",
   "git remote get-url, exit status"}

\* C21 as stated: an operation of the runtime during which a remote call or
\* a git command failed returns an error, a conflict of the merge engine
\* aside.
C21_Original ==
  (last.op \in QuestOperations /\ last.out.faults # {}) => last.res = "err"

\* C21: an operation of the runtime during which a remote call or a git
\* command failed returns an error, unless each failure is one of: a
\* conflict of the merge engine, a listing of infer_state_update that
\* answers 404, a test_repo that wait_for_content tries again, the exit
\* status of the command of has_upstream.
C21_FailuresReturned ==
  last.op \in QuestOperations =>
    /\ (last.out.faults \ NotReturned # {}) => last.res = "err"
    /\ (last.res = "err" /\ last.op \in {"create", "load", "refresh_state"})
         => last.out.faults \ NotReturned # {}

\* a filing whose issue could not be created has returned the error
C21_Witness ==
  /\ last.op = "file_feature_and_issue"
  /\ "create issue" \in last.out.faults
  /\ last.res = "err"

\* -------------------------------------------------------- the poll loop
\* The task that manage_quest spawns runs Quest::infer_state_loop while the
\* interface invokes refresh_state and the origin changes. The task is at
\* its refresh, at its sleep, or terminated.
Polling(at) == [poll |-> at]

\* infer_state_loop if it went on after a refresh that failed
infer_state_loop_going_on(res) == "sleep"

\* Quest::infer_state_loop after a refresh that returned res: unwrap panics
\* on an error, which ends the task; otherwise the task sleeps
infer_state_loop(res) == IF res = "ok" THEN "sleep" ELSE "terminated"

InitLoop ==
  /\ stages = StagesOf(<<None>>)
  /\ variant = "repo"
  /\ origin = <<>>
  /\ branches = {}
  /\ main_base = "initial"
  /\ cache = [prs |-> Some(<<>>), issues |-> Some(<<>>)]
  /\ emitted = Some(Descriptor(GroundState, cache))
  /\ faulty \in BOOLEAN
  /\ tasks = Polling("refresh")
  /\ package = NoPackage
  /\ last = [op |-> "load", arg |-> 0, res |-> "ok", before |-> GroundState,
             out |-> None]

\* one refresh of the loop
PollRefresh ==
  /\ tasks.poll = "refresh"
  /\ \E w \in infer_state_update(Here) :
       /\ cache' = w.cache
       /\ emitted' = w.emitted
       /\ last' = Acted("infer_state_loop", 0, w.res, None)
       /\ tasks' = Polling(infer_state_loop(w.res))
  /\ UNCHANGED <<stages, variant, origin, branches, main_base, faulty, package>>

\* the 10 s have passed
PollWake ==
  /\ tasks.poll = "sleep"
  /\ tasks' = Polling("refresh")
  /\ UNCHANGED <<stages, variant, origin, branches, main_base, cache, emitted,
                 last, faulty, package>>

NextLoop ==
  \/ PollRefresh
  \/ PollWake
  \/ RefreshState
  \/ \E it \in ItemStates : Len(origin) < MaxFaultyItems /\ Appear(it)

\* the steps of PollRefresh seen on the task alone: the refresh that the
\* loop awaits has returned
PollReturns ==
  /\ tasks.poll = "refresh"
  /\ tasks' \in {Polling("sleep"), Polling("terminated")}

\* the runtime goes on running a spawned task: a refresh that is awaited
\* returns, a sleep ends
SpecLoop ==
  InitLoop /\ [][NextLoop]_vars /\ WF_tasks(PollReturns) /\ WF_vars(PollWake)

Terminated == tasks.poll = "terminated"

\* a refresh invoked now can publish the descriptor of the origin
RefreshWorks ==
  \E w \in infer_state_update(Here) :
    /\ w.res = "ok"
    /\ w.emitted # None
    /\ w.emitted[1].state = StateOf(origin)

\* C22: as long as no refresh of the loop fails, the loop is infinitely
\* often at the sleep that follows a refresh that published; a refresh of
\* the loop that fails terminates the task; once terminated the task takes
\* no step, so publishes nothing more, while a refresh that the interface
\* invokes can still publish.
C22_PollLoop ==
  /\ ([](~Terminated)) => []<>(tasks.poll = "sleep" /\ emitted # None)
  /\ []((last.op = "infer_state_loop" /\ last.res # "ok") => Terminated)
  /\ []((Terminated \/ ~faulty) => RefreshWorks)
  /\ []((last.op = "infer_state_loop" /\ last.res = "ok")
          => emitted = Some(Descriptor(last.before, cache)) \/ faulty)
  /\ [][Terminated => (tasks' = tasks /\ last'.op # "infer_state_loop")]_vars

\* the loop has ended and a refresh invoked afterwards has published
C22_Witness ==
  /\ Terminated
  /\ last.op = "refresh_state"
  /\ last.res = "ok"
  /\ origin # <<>>
  /\ emitted[1].state = StateOf(origin)

\* ------------------------------------------ git.rs, the clone by commands
\* A commit is the tree it records and its message; a history is the
\* sequence of the commits from the first to the tip, and stands for the SHA
\* of its tip. A tree is the set of the changes it holds.
Commit(tree, msg) == [tree |-> tree, msg |-> msg]

InitialHistory == <<Commit({}, <<"initial">>)>>

\* the learner's main: their own work on top of the initial commit
MainHistory == Append(InitialHistory, Commit({<<"learner">>}, <<"learner">>))

Tip(history) == history[Len(history)]

\* the branches of the upstream in the order in which the author stacked
\* them: for each chapter its starter, if any, then its solution
RECURSIVE UpstreamChain(_)
UpstreamChain(n) ==
  IF n = 0 THEN <<>>
  ELSE UpstreamChain(n - 1)
         \o (IF no_starter(stages[n]) THEN <<>>
             ELSE <<branch_name(stages[n], "Starter")>>)
         \o <<branch_name(stages[n], "Solution")>>

UpstreamBranches == UpstreamChain(Len(stages))

\* upstream/<branch>: one commit per branch of the chain, main being the
\* initial commit
UpstreamHistory(branch) ==
  IF branch \notin Range(UpstreamBranches) THEN InitialHistory
  ELSE LET p == CHOOSE i \in DOMAIN UpstreamBranches : UpstreamBranches[i] = branch
       IN InitialHistory
            \o [i \in 1..p |->
                  Commit({UpstreamBranches[j] : j \in 1..i}, UpstreamBranches[i])]

\* the commits of upstream/<base>..upstream/<target>
CommitRange(base_branch, target_branch) ==
  LET from == UpstreamHistory(base_branch)
      to == UpstreamHistory(target_branch)
  IN IF Len(to) > Len(from) THEN SubSeq(to, Len(from) + 1, Len(to)) ELSE <<>>

\* the commits of a range picked on top of a history
RECURSIVE Picked(_, _)
Picked(history, commits) ==
  IF commits = <<>> THEN history
  ELSE Picked(Append(history,
                     Commit(Tip(history).tree \cup Head(commits).tree,
                            Head(commits).msg)),
              Tail(commits))

\* the clone: the branch checked out, the local branches with their
\* histories, the index, and what was pushed to the origin
Clone(local) ==
  [current |-> Main,
   heads |-> [b \in local \cup {Main} |-> MainHistory],
   index |-> Tip(MainHistory).tree,
   pushed |-> [b \in {Main} |-> MainHistory]]

StarterMessage == <<"Starter code">>

OverrideMessage == <<"Override with reference solution">>

\* what a git command that succeeded does to the clone
git_effect(g, cmd) ==
  IF cmd[1] = "checkout -b"
    THEN [g EXCEPT !.current = cmd[2],
                   !.heads = [b \in DOMAIN g.heads \cup {cmd[2]} |->
                                IF b = cmd[2] THEN g.heads[g.current]
                                ELSE g.heads[b]]]
  ELSE IF cmd[1] = "checkout"
    THEN [g EXCEPT !.current = cmd[2], !.index = Tip(g.heads[cmd[2]]).tree]
  ELSE IF cmd[1] = "cherry-pick"
    THEN [g EXCEPT !.heads[g.current] = Picked(@, CommitRange(cmd[2], cmd[3])),
                   !.index = @ \cup Tip(UpstreamHistory(cmd[3])).tree]
  ELSE IF cmd[1] = "reset --hard"
    THEN [g EXCEPT !.heads[g.current] = UpstreamHistory(cmd[2]),
                   !.index = Tip(UpstreamHistory(cmd[2])).tree]
  ELSE IF cmd[1] = "reset"
    THEN [g EXCEPT !.heads[g.current] = InitialHistory, !.index = {}]
  ELSE IF cmd[1] = "reset --soft"
    THEN [g EXCEPT !.heads[g.current] = g.heads[cmd[2]]]
  ELSE IF cmd[1] = "apply"
    THEN [g EXCEPT !.index = @ \cup {<<"patch", cmd[2]>>}]
  ELSE IF cmd[1] = "commit"
    THEN [g EXCEPT !.heads[g.current] =
                     Append(@, Commit(g.index, IF Len(cmd) > 1 THEN cmd[2]
                                               ELSE StarterMessage))]
  ELSE IF cmd[1] = "push -u origin"
    THEN [g EXCEPT !.pushed = [b \in DOMAIN g.pushed \cup {cmd[2]} |->
                                 IF b = cmd[2] THEN g.heads[cmd[2]]
                                 ELSE g.pushed[b]]]
  ELSE g

\* the clone after the commands of a log, those that failed changing
\* nothing
RECURSIVE git_after(_, _)
git_after(g, log) ==
  IF log = <<>> THEN g
  ELSE git_after(IF Head(log).ok THEN git_effect(g, Head(log).cmd) ELSE g,
                 Tail(log))

\* commands run one after the other with the ? operator: the one named
\* failed fails and ends the run
RECURSIVE run_each(_, _)
run_each(cmds, failed) ==
  IF cmds = <<>> THEN <<>>
  ELSE IF Head(cmds)[1] = failed THEN <<Ran(Head(cmds), FALSE)>>
  ELSE <<Ran(Head(cmds), TRUE)>> \o run_each(Tail(cmds), failed)

AllRan(log) == \A k \in DOMAIN log : log[k].ok

\* cherry_pick if it reset to the reference solution without the soft reset
\* to main
cherry_pick_run_without_soft_reset(base_branch, target_branch, picked, failed) ==
  LET pick == <<"cherry-pick", base_branch, target_branch>>
  IN IF picked = "ok" THEN [ok |-> TRUE, val |-> "Success", log |-> <<Ran(pick, TRUE)>>]
     ELSE LET log == run_each(<<<<"cherry-pick --abort">>,
                                <<"reset --hard", target_branch>>,
                                <<"commit", OverrideMessage>>>>, failed)
          IN IF AllRan(log)
               THEN [ok |-> TRUE, val |-> "SolutionReset",
                     log |-> <<Ran(pick, FALSE)>> \o log]
             ELSE [ok |-> FALSE, log |-> <<Ran(pick, FALSE)>> \o log]

\* GitRepo::cherry_pick, command by command: picked tells whether the
\* cherry-pick of the range succeeded ("ok"), stopped at a conflict
\* ("conflict") or could not start ("error", when no pick is in progress
\* for the abort to end); failed names the later command that fails
cherry_pick_run(base_branch, target_branch, picked, failed) ==
  LET pick == <<"cherry-pick", base_branch, target_branch>>
  IN IF picked = "ok" THEN [ok |-> TRUE, val |-> "Success", log |-> <<Ran(pick, TRUE)>>]
     ELSE IF picked = "error"
       THEN [ok |-> FALSE,
             log |-> <<Ran(pick, FALSE), Ran(<<"cherry-pick --abort">>, FALSE)>>]
     ELSE LET log == run_each(<<<<"cherry-pick --abort">>,
                                <<"reset --hard", target_branch>>,
                                <<"reset --soft", Main>>,
                                <<"commit", OverrideMessage>>>>, failed)
          IN IF AllRan(log)
               THEN [ok |-> TRUE, val |-> "SolutionReset",
                     log |-> <<Ran(pick, FALSE)>> \o log]
             ELSE [ok |-> FALSE, log |-> <<Ran(pick, FALSE)>> \o log]

\* QuestTemplate::apply_patch of the two variants, command by command
template_apply_patch_run(base_branch, target_branch, picked, failing, failed) ==
  IF variant = "repo"
    THEN cherry_pick_run(base_branch, target_branch, picked, failed)
  ELSE LET patch_index == patch(<<base_branch, target_branch>>)
       IN IF patch_index = None THEN [ok |-> FALSE, log |-> <<>>]
          ELSE git_apply_patch_run(patch_index[1], picked = "ok", failing, failed)

\* GitRepo::head_commit
head_commit(g) == g.heads[g.current]

\* create_branch_from if it read the head after checking out main
branch_pushed_head_of_main(g, target_branch, log, merge_type, failed) ==
  LET rest == run_each(<<<<"push -u origin", target_branch>>, <<"checkout", Main>>,
                         <<"rev-parse">>>>, failed)
  IN IF AllRan(rest)
       THEN [ok |-> TRUE, log |-> log \o rest,
             val |-> <<head_commit(git_after(g, log \o rest)), merge_type>>]
     ELSE [ok |-> FALSE, log |-> log \o rest]

\* the rest of create_branch_from once the branch is checked out and the
\* patch was run
branch_pushed(g, target_branch, log, merge_type, failed) ==
  LET rest == run_each(<<<<"push -u origin", target_branch>>, <<"rev-parse">>,
                         <<"checkout", Main>>>>, failed)
  IN IF AllRan(rest)
       THEN [ok |-> TRUE, log |-> log \o rest,
             val |-> <<head_commit(git_after(g, log \o SubSeq(rest, 1, 2))),
                       merge_type>>]
     ELSE [ok |-> FALSE, log |-> log \o rest]

\* GitRepo::create_branch_from, command by command, from the clone g;
\* checkout -b fails when the branch exists
create_branch_from_run(g, base_branch, target_branch, patch_run, failed) ==
  LET checkout == <<"checkout -b", target_branch>>
  IN IF target_branch \in DOMAIN g.heads \/ failed = "checkout -b"
       THEN [ok |-> FALSE, log |-> <<Ran(checkout, FALSE)>>]
     ELSE IF ~patch_run.ok
       THEN [ok |-> FALSE, log |-> <<Ran(checkout, TRUE)>> \o patch_run.log]
     ELSE branch_pushed(g, target_branch, <<Ran(checkout, TRUE)>> \o patch_run.log,
                        patch_run.val, failed)

\* the remote calls of copy_pr, head being the commit that the comments are
\* attached to; upto names the last call that succeeds
copy_pr_run(pr, head, upto) ==
  LET create == <<"create pull", pr.head, Main>>
      labels == <<"add labels">>
      comment == <<"create comment", head>>
  IN IF upto = "none" THEN <<Ran(create, FALSE)>>
     ELSE IF upto = "create" THEN <<Ran(create, TRUE), Ran(labels, FALSE)>>
     ELSE IF upto = "labels"
       THEN <<Ran(create, TRUE), Ran(labels, TRUE), Ran(comment, FALSE)>>
     ELSE <<Ran(create, TRUE), Ran(labels, TRUE), Ran(comment, TRUE)>>

\* GitRepo::checkout_main_and_pull; pulled names the command that fails
checkout_main_and_pull_run(pulled) ==
  IF pulled = "checkout" THEN <<Ran(<<"checkout", Main>>, FALSE)>>
  ELSE IF pulled = "pull"
    THEN <<Ran(<<"checkout", Main>>, TRUE), Ran(<<"pull">>, FALSE)>>
  ELSE <<Ran(<<"checkout", Main>>, TRUE), Ran(<<"pull">>, TRUE)>>

\* the rest of file_pr once create_branch_from has returned
pr_copied(log, made, pr, upto) ==
  IF ~made.ok THEN [ok |-> FALSE, log |-> log \o made.log]
  ELSE IF pr = None THEN [ok |-> FALSE, log |-> log \o made.log]
  ELSE [ok |-> upto = "all", head |-> made.val[1], merge_type |-> made.val[2],
        log |-> log \o made.log \o copy_pr_run(pr[1], made.val[1], upto)]

\* Quest::file_pr, command by command and call by call
file_pr_run(g, base_branch, target_branch, pulled, patch_run, failed, upto) ==
  IF pulled # "ok"
    THEN [ok |-> FALSE, log |-> checkout_main_and_pull_run(pulled)]
  ELSE pr_copied(checkout_main_and_pull_run(pulled),
                 create_branch_from_run(g, base_branch, target_branch,
                                        patch_run, failed),
                 template_pull_request(Branch(target_branch)), upto)

\* the branches that a filing may have left in the clone
ChapterBranches ==
  {branch_name(stages[k], part) : k \in DOMAIN stages, part \in {"Starter", "Solution"}}

\* a quest in whose clone at most one branch is left from an earlier filing
InitMerge ==
  /\ stages \in {StagesOf(cfg) : cfg \in Configs(MaxInferStages)}
  /\ variant \in {"repo", "package"}
  /\ origin = <<>>
  /\ branches \in {{}} \cup {{b} : b \in ChapterBranches}
  /\ main_base = "initial"
  /\ cache = [prs |-> Some(<<>>), issues |-> Some(<<>>)]
  /\ emitted = Some(Descriptor(GroundState, cache))
  /\ faulty = TRUE
  /\ tasks = NoTasks
  /\ package = NoPackage
  /\ last = [op |-> "none", arg |-> 0, res |-> "ok", before |-> GroundState,
             out |-> None]

\* the commands that may be made to fail
GitFailures ==
  {"none", "checkout -b", "cherry-pick --abort", "reset --hard", "reset --soft",
   "reset", "add", "commit", "push -u origin", "rev-parse", "checkout"}

\* file_pr is run once for a pair of branches that the filing operations ask
\* for
FilePr(key, pulled, picked, failing, failed, upto) ==
  /\ last.op = "none"
  /\ LET run == file_pr_run(Clone(branches), key[1], key[2], pulled,
                            template_apply_patch_run(key[1], key[2], picked,
                                                     failing, failed),
                            failed, upto)
         g == git_after(Clone(branches), run.log)
         copied == "head" \in DOMAIN run
     IN /\ branches' = DOMAIN g.heads \ {Main}
        /\ origin' = IF copied
                       THEN copy_pr(Here, template_pull_request(Branch(key[2]))[1],
                                    run.merge_type, upto).origin
                     ELSE origin
        /\ last' = [op |-> "file_pr",
                    arg |-> [key |-> key, pulled |-> pulled, picked |-> picked,
                             failing |-> failing, failed |-> failed,
                             upto |-> upto],
                    res |-> IF run.ok THEN "ok" ELSE "err",
                    before |-> GroundState,
                    out |-> [log |-> run.log, git |-> g,
                             head |-> IF copied THEN Some(run.head) ELSE None,
                             merge_type |-> IF copied THEN Some(run.merge_type)
                                            ELSE None]]
  /\ UNCHANGED <<stages, variant, main_base, cache, emitted, faulty, tasks,
                 package>>

\* the pairs of branches that the filing operations call file_pr with
FiledPairs ==
  {<<StarterBase(k), branch_name(stages[k], "Starter")>> :
     k \in {n \in DOMAIN stages : ~no_starter(stages[n])}}
  \cup {<<SolutionBase(k), branch_name(stages[k], "Solution")>> : k \in DOMAIN stages}

\* one command or call fails at most; a patch of the replay fails only
\* where patches are replayed
NextMerge ==
  \E key \in FiledPairs, pulled \in {"ok", "checkout", "pull"},
     picked \in {"ok", "conflict", "error"},
     failing \in (IF variant = "package" THEN 0..Len(patches) ELSE {0}),
     failed \in GitFailures, upto \in CopyPrSteps :
    /\ pulled = "ok" \/ (picked = "ok" /\ failed = "none")
    /\ failing = 0 \/ (picked = "conflict" /\ failed = "none")
    /\ upto = "all" \/ (pulled = "ok" /\ failing = 0 /\ failed = "none")
    /\ FilePr(key, pulled, picked, failing, failed, upto)

SpecMerge == InitMerge /\ [][NextMerge]_vars

\* ------------------------------------------------ cherry-pick-flavor merge
\* the positions of the log at which a command with a given name was run
RanAt(log, name) == {k \in DOMAIN log : log[k].cmd[1] = name}

\* the four steps that follow a cherry-pick that failed
ResetSteps(target_branch) ==
  <<<<"cherry-pick --abort">>, <<"reset --hard", target_branch>>,
    <<"reset --soft", Main>>, <<"commit", OverrideMessage>>>>

\* C31: in the repo variant, when the cherry-pick of the range
\* upstream/<base>..upstream/<target> succeeds the result is Success, no
\* reset, abort or commit is run and the target branch holds the picked
\* commits on top of main; when it fails, abort, reset --hard
\* upstream/<target>, reset --soft main and commit 'Override with reference
\* solution' are run in that order, each only after the one before it
\* succeeded; when all four succeed the result is SolutionReset and the
\* target branch is main plus one commit whose tree is that of
\* upstream/<target>, and when one fails an error is returned.
C31_CherryPickMerge ==
  (last.op = "file_pr" /\ variant = "repo"
     /\ RanAt(last.out.log, "cherry-pick") # {}) =>
    LET log == last.out.log
        base == last.arg.key[1]
        target == last.arg.key[2]
        p == CHOOSE k \in RanAt(log, "cherry-pick") : TRUE
        steps == ResetSteps(target)
        after == {k \in 1..4 : p + k \in DOMAIN log /\ log[p + k].cmd = steps[k]}
    IN /\ RanAt(log, "cherry-pick") = {p}
       /\ log[p].cmd = <<"cherry-pick", base, target>>
       /\ IF log[p].ok
            THEN /\ \A k \in DOMAIN log :
                      log[k].cmd[1] \notin {"cherry-pick --abort", "reset --hard",
                                            "reset --soft", "commit"}
                 /\ last.out.merge_type \in {None, Some("Success")}
                 /\ last.res = "ok" => last.out.merge_type = Some("Success")
                 /\ last.out.git.heads[target]
                      = Picked(MainHistory, CommitRange(base, target))
          ELSE /\ log[p + 1].cmd = steps[1]
               /\ \A k \in 1..4 : k \in after => \A j \in 1..(k - 1) : log[p + j].ok
               /\ \A k \in 1..3 : (k \in after /\ log[p + k].ok) => k + 1 \in after
               /\ \A k \in DOMAIN log :
                    log[k].cmd[1] \in {"cherry-pick --abort", "reset --hard",
                                       "reset --soft", "commit"}
                      => k - p \in after
               /\ IF \A k \in 1..4 : k \in after /\ log[p + k].ok
                    THEN /\ last.out.merge_type \in {None, Some("SolutionReset")}
                         /\ last.res = "ok" =>
                              last.out.merge_type = Some("SolutionReset")
                         /\ last.out.git.heads[target]
                              = Append(MainHistory,
                                       Commit(Tip(UpstreamHistory(target)).tree,
                                              OverrideMessage))
                  ELSE last.res = "err" /\ last.out.merge_type = None

\* a pull was filed after a conflict of the cherry-pick
C31_Witness ==
  /\ last.op = "file_pr"
  /\ variant = "repo"
  /\ last.arg.picked = "conflict"
  /\ last.res = "ok"
  /\ last.out.merge_type = Some("SolutionReset")

\* ------------------------------------------------- the branch of a pull
\* the position of the one command or call with a given name that
\* succeeded, 0 when there is none
DoneAt(log, name) ==
  LET S == {k \in RanAt(log, name) : log[k].ok}
  IN IF S = {} THEN 0 ELSE CHOOSE k \in S : \A j \in S : j <= k

\* C32: when create_branch_from has succeeded the target branch exists, the
\* patch of the template was run after the branch was made and before the
\* push, what was pushed for the target branch is its head, the SHA that is
\* returned is that head, which has the commit of the merge, and main is
\* checked out; the pull that file_pr then creates is a pull of the target
\* branch, so of that SHA, its comments are attached to that SHA, and the
\* push comes before the creation of the pull.
C32_BranchPushedThenPull ==
  (last.op = "file_pr" /\ last.out.head # None) =>
    LET log == last.out.log
        g == last.out.git
        target == last.arg.key[2]
        head == last.out.head[1]
        made == DoneAt(log, "checkout -b")
        pushed == DoneAt(log, "push -u origin")
        patched == IF variant = "repo" THEN RanAt(log, "cherry-pick")
                   ELSE RanAt(log, "apply")
    IN /\ made # 0 /\ log[made].cmd = <<"checkout -b", target>>
       /\ target \in DOMAIN g.heads
       /\ patched # {} /\ \A k \in patched : made < k /\ k < pushed
       /\ pushed # 0 /\ log[pushed].cmd = <<"push -u origin", target>>
       /\ g.pushed[target] = g.heads[target]
       /\ head = g.heads[target]
       /\ head # MainHistory
       /\ Tip(head).msg \in {StarterMessage, OverrideMessage, target}
       /\ g.current = Main
       /\ log[Len(log)].cmd[1] \in {"create pull", "add labels", "create comment"}
       /\ \A k \in RanAt(log, "create pull") :
            pushed < k /\ log[k].cmd = <<"create pull", target, Main>>
       /\ \A k \in RanAt(log, "create comment") : log[k].cmd[2] = head
       /\ last.res = "ok" => DoneAt(log, "create pull") # 0
                              /\ DoneAt(log, "create comment") # 0

\* a pull was filed for a branch that was reset to the starter code
C32_Witness ==
  /\ last.op = "file_pr"
  /\ last.res = "ok"
  /\ variant = "package"
  /\ last.out.merge_type = Some("StarterReset")
  /\ last.out.head # None
  /\ Len(origin) = 1

\* ------------------------------------------------ the base of a filing
\* <label>-a and <label>-b of the chapter with index i, written out
StarterBranchOf(i) == stages[i + 1].label \o <<"-", "a">>

SolutionBranchOf(i) == stages[i + 1].label \o <<"-", "b">>

PullsWithHead(items, head) ==
  {k \in DOMAIN items : IsPull(items[k]) /\ items[k].head = head}

\* C33: file_solution(i) calls file_pr for the target <label_i>-b with the
\* base <label_i>-a when chapter i has a starter, and otherwise with
\* <label_{i-1}>-b, or main when i = 0; file_feature_and_issue(i) calls
\* file_pr for <label_i>-a with the base main when i = 0 and <label_{i-1}>-b
\* otherwise, and for a chapter without starter it calls no file_pr and the
\* origin gets no pull of <label_i>-a.
C33_BasesOfFilings ==
  LET i == last.arg
  IN /\ (last.op = "file_solution" /\ last.res # "panic") =>
          /\ last.out.asked =
               Some(<<IF stages[i + 1].no_starter # Some(TRUE) THEN StarterBranchOf(i)
                      ELSE IF i = 0 THEN Main ELSE SolutionBranchOf(i - 1),
                      SolutionBranchOf(i)>>)
          /\ last.res = "ok" => PullsWithHead(origin, SolutionBranchOf(i)) # {}
     /\ (last.op = "file_feature_and_issue" /\ last.res # "panic") =>
          IF stages[i + 1].no_starter = Some(TRUE)
            THEN /\ last.out.asked = None
                 /\ PullsWithHead(origin, StarterBranchOf(i)) = {}
          ELSE /\ last.out.asked =
                    Some(<<IF i = 0 THEN Main ELSE SolutionBranchOf(i - 1),
                           StarterBranchOf(i)>>)
               /\ last.res = "ok" => PullsWithHead(origin, StarterBranchOf(i)) # {}

\* the solution of a second chapter without starter was filed on the
\* solution of the first
C33_Witness ==
  /\ last.op = "file_solution"
  /\ last.arg = 1
  /\ last.res = "ok"
  /\ stages[2].no_starter = Some(TRUE)
  /\ last.out.asked = Some(<<SolutionBranchOf(0), SolutionBranchOf(1)>>)

\* ------------------------------------------------- what a refresh emits
\* what a fetch that succeeds caches of the origin
Fetched_origin == fetch(origin, NewCache, "ok", "ok").cache

\* C34 as stated: a refresh that succeeds has replaced the cache by what a
\* fetch listed and has emitted one descriptor with the URLs of that cache
\* and the inferred state; a refresh that fails has emitted nothing.
C34_Original ==
  last.op = "refresh_state" =>
    /\ last.res = "ok" =>
         /\ cache = Fetched_origin
         /\ last.out.emits = 1
         /\ emitted # None
         /\ emitted[1].stages = stage_states(cache)
         /\ emitted[1].state = IF "infer_state 404" \in last.out.faults
                                 THEN GroundState ELSE StateOf(origin)
    /\ last.res = "err" => last.out.emits = 0

\* C34: a refresh that succeeds has emitted exactly one descriptor, whose
\* URLs are those of the cache as the refresh leaves it and whose state is
\* what infer_state has just answered; the cache was replaced by what the
\* fetch listed unless the fetch was answered 404, in which case the refresh
\* succeeds all the same with the cache it found; a refresh that fails has
\* emitted nothing.
C34_RefreshEmitsOnce ==
  last.op = "refresh_state" =>
    /\ last.res = "ok" =>
         /\ "fetch 404" \notin last.out.faults => cache = Fetched_origin
         /\ last.out.emits = 1
         /\ emitted # None
         /\ emitted[1].stages = stage_states(cache)
         /\ emitted[1].state = IF "infer_state 404" \in last.out.faults
                                 THEN GroundState ELSE StateOf(origin)
    /\ last.res = "err" => last.out.emits = 0

\* a refresh has replaced a cache that lacked a pull of the origin and has
\* emitted the URL of that pull
C34_Witness ==
  /\ last.op = "refresh_state"
  /\ last.res = "ok"
  /\ last.out.faults = {}
  /\ origin # <<>>
  /\ cache = Fetched_origin
  /\ \E k \in DOMAIN emitted[1].stages :
       emitted[1].stages[k].feature_pr_url # None

\* ------------------------------------------------ the order of progress
\* The operations that file, skip, merge and close are called in any order
\* and for every chapter, the hosting service answering every call, as long
\* as the origin holds no more than MaxCallItems items.
NextProgress ==
  \/ /\ Len(origin) + 1 <= MaxCallItems
     /\ \/ \E idx \in Stages : FileIssue(idx)
        \/ \E idx \in Stages : FileSolution(idx)
        \/ \E idx \in Stages \ {0} : SkipToStage(idx)
  \/ /\ Len(origin) + 2 <= MaxCallItems
     /\ \E idx \in Stages : FileFeatureAndIssue(idx)
  \/ \E number \in DOMAIN origin : MergePr(number)
  \/ \E number \in DOMAIN origin : CloseIssue(number)

SpecProgress == Init /\ [][NextProgress]_vars

StatusOrd(status) == IF status = "Start" THEN 0 ELSE 1

\* the order (chapter, part, Start < Ongoing) with Completed above all
StateLeq(a, b) ==
  \/ b.type = "Completed"
  \/ /\ a.type = "Ongoing"
     /\ \/ a.stage < b.stage
        \/ a.stage = b.stage /\ PartOrd(a.part) < PartOrd(b.part)
        \/ a.stage = b.stage /\ a.part = b.part
             /\ StatusOrd(a.status) <= StatusOrd(b.status)

ProgressOperations ==
  {"file_issue", "file_feature_and_issue", "file_solution", "skip_to_stage",
   "merge_pr", "close_issue"}

\* C35 as stated: whatever the operations that file, skip, merge and close
\* have done, the state inferred after one of them is not below the state
\* inferred before it, and Completed stays.
C35_ProgressMonotone ==
  last.op \in ProgressOperations => StateLeq(last.before, StateOf(origin))

\* ------------------------------------------- the order of the listings
\* every order in which the items of a page can be listed
Orders(page) ==
  {[k \in DOMAIN page |-> page[f[k]]] :
     f \in {g \in [DOMAIN page -> DOMAIN page] :
              \A a, b \in DOMAIN page : g[a] = g[b] => a = b}}

\* the state if the tuple of the pull listed last were taken instead of the
\* greatest tuple
state_of_pages_last_pull(prs, issues) ==
  LET imap == issue_map(issues)
      tuple(k) == pr_stage(prs[k], parse_stage(prs[k]), imap)
      with == {k \in DOMAIN prs : tuple(k) # None}
  IN IF with # {}
       THEN state_after(tuple(CHOOSE k \in with : \A j \in with : j <= k)[1])
     ELSE state_of_tuples(issue_stages(imap))

\* infer_state once both pages were taken: issue_map, the tuples of the
\* pulls chained with those of the issues, the greatest one
state_of_pages(prs, issues) ==
  LET imap == issue_map(issues)
  IN state_of_tuples(pr_stages(prs, imap) \cup issue_stages(imap))

\* every chapter label is the first label of at most one issue of the page
OneIssuePerLabel(issues) ==
  \A j, k \in DOMAIN issues :
    (/\ IsIssue(issues[j]) /\ IsIssue(issues[k])
     /\ issues[j].labels # <<>> /\ issues[k].labels # <<>>
     /\ issues[j].labels[1] = issues[k].labels[1]
     /\ issues[j].labels[1] \in DOMAIN stage_index) => j = k

\* C36: when every chapter label is the first label of at most one issue,
\* the state that an answered infer_state returns is the state computed from
\* the same pulls and issues listed in any other order.
C36_OrderOfListing ==
  (/\ last.op = "infer_state" /\ last.res = "ok" /\ last.arg[3] = "ok"
   /\ OneIssuePerLabel(ListIssues(origin, PerPage))) =>
    \A prs \in Orders(ListPulls(origin, PerPage)) :
      \A issues \in Orders(ListIssues(origin, PerPage)) :
        last.out = Some(state_of_pages(prs, issues))

\* C36 without its condition on the labels
C36_AnyIssues ==
  (last.op = "infer_state" /\ last.res = "ok" /\ last.arg[3] = "ok") =>
    \A prs \in Orders(ListPulls(origin, PerPage)) :
      \A issues \in Orders(ListIssues(origin, PerPage)) :
        last.out = Some(state_of_pages(prs, issues))

\* an origin with two pulls of the same chapter, whose tuples differ, was
\* inferred
C36_Witness ==
  /\ last.op = "infer_state" /\ last.res = "ok" /\ last.arg[3] = "ok"
  /\ Len(origin) = 2
  /\ \A k \in DOMAIN origin : IsPull(origin[k])
  /\ Cardinality(Tuples(origin)) = 2
  /\ last.out = Some(Ongoing(0, "Solution", "Ongoing"))

\* --------------------------------------------- reads of the two caches
\* GithubRepo::prs and GithubRepo::issues expect a populated cache: an
\* operation that read one while it was None has panicked there and has
\* left it None
ReadUnpopulated ==
  last.res = "panic" /\ (cache.prs = None \/ cache.issues = None)

\* C37: no operation of the runtime reads a cache of the origin before a
\* fetch has populated it, whatever the listings answer.
C37_CachesPopulatedWhenRead ==
  last.op \in QuestOperations => ~ReadUnpopulated

\* ------------------------------------------- one pull per chapter part
Filings == {"file_feature_and_issue", "file_solution"}

OnePullPerBranch ==
  \A head \in ChapterBranches : Cardinality(PullsWithHead(origin, head)) <= 1

\* a filing whose target branch was in the clone before it has failed at the
\* creation of the branch and has left the pulls of the origin as they were
RefiledFails ==
  (/\ last'.op \in Filings
   /\ last'.out.asked # None
   /\ last'.out.asked[1][2] \in branches) =>
    /\ last'.res = "err"
    /\ "create branch" \in last'.out.faults
    /\ OnlyPulls(origin') = OnlyPulls(origin)

\* C38: whatever filings were called, the origin holds at most one pull per
\* chapter part, and a filing for a branch that the clone already has fails
\* at the creation of the branch before a pull is created.
C38_OnePullPerPart == []OnePullPerBranch /\ [][RefiledFails]_vars

\* the solution of a chapter was filed again: the call failed at the branch
\* and the origin still holds the one pull of the first filing
C38_Witness ==
  /\ last.op = "file_solution"
  /\ last.res = "err"
  /\ "create branch" \in last.out.faults
  /\ last.out.asked # None
  /\ Cardinality(PullsWithHead(origin, last.out.asked[1][2])) = 1

\* ------------------------------------------------ what a fetch leaves
\* C39: a fetch that returns false or an error leaves the cache of the pulls
\* and the cache of the issues as they were before the call.
C39_FailedFetchKeepsCaches ==
  (last.op = "fetch" /\ last.res \in {"false", "err"}) => cache = last.out

\* both listings answered, a comment listing failed, and the caches are
\* still those of before, which lack an item of the origin
C39_Witness ==
  /\ last.op = "fetch"
  /\ last.res = "err"
  /\ CommentsFailed
  /\ cache = last.out
  /\ cache # Snapshot

\* a fetch answered 404 has left caches that lack an item of the origin
C39_WitnessNotFound ==
  /\ last.op = "fetch"
  /\ last.res = "false"
  /\ cache = last.out
  /\ cache # Snapshot

====
